---- MODULE Spec2Model ----
(***************************************************************************)
(* A model of VeloRead: the chapter index (src/src/reader/chapters.ts),    *)
(* the chunked token store and book list (src/src/storage/index.ts), the   *)
(* tokenizer (src/unnamed/part_003), the importers                         *)
(* (src/src/utils/importBook.ts), the library screen                       *)
(* (src/unnamed/part_008), the ORP word layout (src/jest.config.js) and    *)
(* the reading session with its playback timer and chunk cache             *)
(* (ReaderScreen in src/unnamed/part_009, usePlayback in                   *)
(* src/unnamed/part_006).                                                  *)
(*                                                                         *)
(* The specifications share the variables.  Each one drives its own group  *)
(* of variables and leaves the others at their idle values:                *)
(*   SpecChapters  normalizeChapters on bounded chapter lists              *)
(*   SpecStore     saveTokenChunks followed by loadTokenChunk read-back    *)
(*   Spec          one reading session                                     *)
(*   SpecFind      findChapterIndex on sorted chapter lists                *)
(*   SpecText      normalizeText, tokenize and tokenizeLargeText           *)
(*   SpecLibrary   upsertBook and removeBook, one call at a time           *)
(*   SpecImport    importTxtFromUri and importEpubFromUri                  *)
(*   SpecDelay     computeDelayMs                                          *)
(*   SpecOrp       the ORP word layout and its font size                   *)
(*   SpecPlayback  playback from a saved position, with fair scheduling    *)
(*   SpecOverlap   upsertBook and removeBook calls that overlap            *)
(*   SpecCatalog   imports and deletions of the library screen             *)
(***************************************************************************)
EXTENDS Integers, Sequences, FiniteSets, Bags, TLC

VARIABLES
    \* ---- chapter index ----
    chInput,        \* the raw chapter list handed to normalizeChapters
    chTokenCount,   \* its tokenCount argument
    chOutput,       \* the list normalizeChapters returned
    chPc,           \* "input" | "done"
    \* ---- key/value store (AsyncStorage) and the save/load operations ----
    kv,             \* key -> stored string, a function on the keys present
    svBookId,       \* saveTokenChunks: bookId
    svTokens,       \* saveTokenChunks: tokens
    svChunkSize,    \* saveTokenChunks: chunkSize
    svChunkIndex,   \* saveTokenChunks: the loop variable chunkIndex
    svResult,       \* saveTokenChunks: the returned chunkCount, -1 before
    svPc,           \* "idle" | "saving" | "saved" | "loading" | "loaded"
    ldIndex,        \* read-back: next chunk index to load
    ldChunks,       \* read-back: the results of loadTokenChunk so far
    \* ---- reading session ----
    book,           \* bookRef.current / book state; Absent before bootstrap
    loading,        \* loading state
    mounted,        \* the screen is mounted (hooks not torn down)
    index,          \* index state
    isPlaying,      \* isPlaying state
    wpm,            \* wpm state
    currentToken,   \* currentToken state
    chunkCache,     \* chunkCacheRef.current: entries in insertion order
    timeoutRef,     \* usePlayback timeoutRef.current: timer id, 0 for null
    timers,         \* pending setTimeout callbacks: records [id, index]
    inflight,       \* bag of suspended bootstrap / primeAroundIndex calls
    \* ---- chapter lookup ----
    fcChapters,     \* findChapterIndex: the chapter list
    fcIndex,        \* the tokenIndex of the next call
    fcResults,      \* what the calls made so far returned, in call order
    \* ---- tokenizer ----
    tkText,         \* the text handed to tokenize and tokenizeLargeText
    tkPc,           \* tokenizeLargeText: "idle" | "ready" | "loop" | "done"
    tkParagraphs,   \* tokenizeLargeText: paragraphs
    tkI,            \* tokenizeLargeText: the loop variable i
    tkTokens,       \* tokenizeLargeText: tokens
    tkSync,         \* what tokenize returned: None before the call
    progress,       \* the ImportProgress events onProgress received, in order
    \* ---- library: the book list, reading states and removal ----
    lbPc,           \* where the running upsertBook / removeBook call is suspended
    lbArg,          \* its argument: a BookMeta or a bookId
    lbBooks,        \* its local variable books
    lbKeys,         \* removeBook: its local variable chunkKeys
    lbHistory,      \* the calls completed so far, in order
    \* ---- import: importTxtFromUri and importEpubFromUri ----
    imKind,         \* "txt" | "epub": which import runs
    imFile,         \* the file at uri: a text, or an EPUB archive
    imPc,           \* where the import is suspended; "done" | "failed" at the end
    imSections,     \* extractEpubSections: sections (the reading order)
    imExtracted,    \* extractEpubSections: extractedSections
    imI,            \* the loop variable i of the loop that is suspended
    imTokens,       \* tokens
    imChapters,     \* chapters
    imTextLength,   \* textLength
    imResult,       \* the ImportedBook returned: None before, and on failure
    imError,        \* the message of the Error thrown, "" when none
    \* ---- playback delay: computeDelayMs ----
    dlToken,        \* its argument token
    dlWpm,          \* its argument wpm
    dlPauses,       \* its argument punctuationPauses
    dlDelay,        \* the number returned, an exact fraction of milliseconds
    dlPc,           \* "call" | "done"
    \* ---- ORP layout: OrpWordBase ----
    orpToken,       \* prop token
    orpEnabled,     \* prop enabled
    orpSize,        \* prop size, the baseline font size
    orpMaxWidth,    \* prop maxWidth, 0 when it is not supplied
    orpLayout,      \* what the render returned
    orpPc,          \* "props" | "rendered"
    \* ---- overlapping upsertBook / removeBook calls ----
    ovInitial,      \* the book list stored before the first call
    ovCalls         \* the calls made, each with its argument, its position
                    \* and its local variables books and chunkKeys

chapterVars == <<chInput, chTokenCount, chOutput, chPc>>
storeVars == <<kv, svBookId, svTokens, svChunkSize, svChunkIndex, svResult, svPc,
               ldIndex, ldChunks>>
readerVars == <<book, loading, mounted, index, isPlaying, wpm, currentToken, chunkCache,
                timeoutRef, timers, inflight>>
findVars == <<fcChapters, fcIndex, fcResults>>
textVars == <<tkText, tkPc, tkParagraphs, tkI, tkTokens, tkSync, progress>>
libraryVars == <<lbPc, lbArg, lbBooks, lbKeys, lbHistory>>
\* The variables of saveTokenChunks and of the read-back, without the store
saveVars == <<svBookId, svTokens, svChunkSize, svChunkIndex, svResult, svPc,
              ldIndex, ldChunks>>
importVars == <<imKind, imFile, imPc, imSections, imExtracted, imI, imTokens, imChapters,
                imTextLength, imResult, imError>>
delayVars == <<dlToken, dlWpm, dlPauses, dlDelay, dlPc>>
orpVars == <<orpToken, orpEnabled, orpSize, orpMaxWidth, orpLayout, orpPc>>
overlapVars == <<ovInitial, ovCalls>>
vars == <<chapterVars, storeVars, readerVars, findVars, textVars, libraryVars, importVars,
         delayVars,
         orpVars,
         overlapVars>>

(***************************************************************************)
(* Small arithmetic and sequence helpers                                   *)
(***************************************************************************)
Min(a, b) == IF a <= b THEN a ELSE b
Max(a, b) == IF a >= b THEN a ELSE b

\* Math.ceil(n / d) for integers n >= 0, d >= 1
MathCeilDiv(n, d) == IF n % d = 0 THEN n \div d ELSE (n \div d) + 1

\* Array.prototype.slice(start, end) on a 0-based array, for 0 <= start
ArraySlice(arr, start, end) ==
    IF start >= Min(end, Len(arr)) THEN <<>>
    ELSE SubSeq(arr, start + 1, Min(end, Len(arr)))

RECURSIVE SeqsUpTo(_, _)
SeqsUpTo(S, n) ==
    IF n = 0 THEN {<<>>}
    ELSE LET shorter == SeqsUpTo(S, n - 1)
         IN  shorter \cup {Append(s, x) : s \in {t \in shorter : Len(t) = n - 1}, x \in S}

RECURSIVE FlattenSeq(_)
FlattenSeq(ss) == IF ss = <<>> THEN <<>> ELSE Head(ss) \o FlattenSeq(Tail(ss))

\* An optional value: what a function that may return null returns
Some(x) == [ok |-> TRUE, v |-> x]
None == [ok |-> FALSE, v |-> <<>>]

\* The key/value store with no key
EmptyStore == [k \in {} |-> <<>>]

(***************************************************************************)
(* Chapter index: normalizeChapters                                        *)
(***************************************************************************)
\* Bounds of the chapter lists explored
MaxChapters == 2
MaxChapterTokens == 2

\* A JavaScript number as normalizeChapters sees it: a finite integer, or a
\* non-finite value (NaN, +-Infinity, Number(undefined))
Num(n) == [fin |-> TRUE, n |-> n]
NaN == [fin |-> FALSE, n |-> 0]

\* The titles explored: empty, blank, and a word
ChapterTitles == {"", " ", "T"}

\* String.prototype.trim on the titles explored
StringTrim(t) == IF t = " " THEN "" ELSE t

\* The .map callback: null (None) for a non-finite start, else the clamped entry
ClampChapter(chapter, tokenCount) ==
    IF ~chapter.startToken.fin THEN None
    ELSE Some([title |-> chapter.title,
               startToken |-> Max(0, Min(tokenCount - 1, chapter.startToken.n)),
               endToken |-> IF chapter.endToken.fin
                            THEN Max(0, Min(tokenCount, chapter.endToken.n))
                            ELSE tokenCount])

\* .map(...).filter(Boolean)
RECURSIVE MapFilterChapters(_, _)
MapFilterChapters(chapters, tokenCount) ==
    IF chapters = <<>> THEN <<>>
    ELSE LET c == ClampChapter(Head(chapters), tokenCount)
             rest == MapFilterChapters(Tail(chapters), tokenCount)
         IN  IF c.ok THEN <<c.v>> \o rest ELSE rest

\* A faulty sort: an entry is placed before the entries with an equal start
RECURSIVE InsertByStartUnstable(_, _)
InsertByStartUnstable(sorted, x) ==
    IF sorted = <<>> THEN <<x>>
    ELSE IF Head(sorted).startToken < x.startToken
         THEN <<Head(sorted)>> \o InsertByStartUnstable(Tail(sorted), x)
         ELSE <<x>> \o sorted

\* Array.prototype.sort((a, b) => a.startToken - b.startToken): a stable sort
RECURSIVE InsertByStart(_, _)
InsertByStart(sorted, x) ==
    IF sorted = <<>> THEN <<x>>
    ELSE IF Head(sorted).startToken <= x.startToken
         THEN <<Head(sorted)>> \o InsertByStart(Tail(sorted), x)
         ELSE <<x>> \o sorted

RECURSIVE SortByStart(_)
SortByStart(s) ==
    IF s = <<>> THEN <<>>
    ELSE InsertByStart(SortByStart(SubSeq(s, 1, Len(s) - 1)), s[Len(s)])

\* A faulty safeEnd: the end is not raised to startToken + 1
SafeEndNoSkip(sorted, i, tokenCount) ==
    LET chapter == sorted[i]
        fallbackEnd == IF i < Len(sorted) THEN sorted[i + 1].startToken ELSE tokenCount
        \* chapter.endToken || fallbackEnd: 0 is falsy
        declared == IF chapter.endToken # 0 THEN chapter.endToken ELSE fallbackEnd
    IN  Min(tokenCount, declared)

\* safeEnd of the entry the for loop pushes for sorted[i] (1-based i)
SafeEnd(sorted, i, tokenCount) ==
    LET chapter == sorted[i]
        fallbackEnd == IF i < Len(sorted) THEN sorted[i + 1].startToken ELSE tokenCount
        \* chapter.endToken || fallbackEnd: 0 is falsy
        declared == IF chapter.endToken # 0 THEN chapter.endToken ELSE fallbackEnd
    IN  Max(chapter.startToken + 1, Min(tokenCount, declared))

\* A faulty title: the title is tested for emptiness before it is trimmed
ChapterTitleRawTest(chapter, k) ==
    IF chapter.title # "" THEN StringTrim(chapter.title)
    ELSE "Chapter " \o ToString(k)

\* chapter.title?.trim() || `Chapter ${normalized.length + 1}`
ChapterTitle(chapter, k) ==
    IF StringTrim(chapter.title) # "" THEN StringTrim(chapter.title)
    ELSE "Chapter " \o ToString(k)

RECURSIVE NormalizeLoop(_, _, _, _)
NormalizeLoop(sorted, i, normalized, tokenCount) ==
    IF i > Len(sorted) THEN normalized
    ELSE IF normalized # <<>>
            /\ normalized[Len(normalized)].startToken = sorted[i].startToken
         THEN NormalizeLoop(sorted, i + 1, normalized, tokenCount)
         ELSE NormalizeLoop(sorted, i + 1,
                  Append(normalized,
                         [title |-> ChapterTitle(sorted[i], Len(normalized) + 1),
                          startToken |-> sorted[i].startToken,
                          endToken |-> SafeEnd(sorted, i, tokenCount)]),
                  tokenCount)

normalizeChapters(chapters, tokenCount) ==
    IF chapters = <<>> \/ tokenCount <= 0 THEN <<>>
    ELSE NormalizeLoop(SortByStart(MapFilterChapters(chapters, tokenCount)), 1, <<>>,
                       tokenCount)

\* A list of ChapterMeta handed to normalizeChapters again: Number(...) of
\* its startToken and endToken is the finite number itself
AsRawChapters(chapters) ==
    [i \in 1 .. Len(chapters) |->
        [title |-> chapters[i].title,
         startToken |-> Num(chapters[i].startToken),
         endToken |-> Num(chapters[i].endToken)]]

\* The raw chapters explored for a given tokenCount: starts below, inside and
\* above the token range and non-finite; ends likewise
RawStarts(tokenCount) == {NaN} \cup {Num(n) : n \in -1 .. Max(tokenCount, 0)}
RawEnds(tokenCount) == {NaN} \cup {Num(n) : n \in 0 .. Max(tokenCount, 0) + 1}
RawChapters(tokenCount) ==
    [title : ChapterTitles, startToken : RawStarts(tokenCount),
     endToken : RawEnds(tokenCount)]

\* A call of normalizeChapters is about to be made; no book is being saved
\* and no reading session is open
InitChapters ==
    /\ chTokenCount \in -1 .. MaxChapterTokens
    /\ chInput \in SeqsUpTo(RawChapters(chTokenCount), MaxChapters)
    /\ chOutput = <<>>
    /\ chPc = "input"
    /\ kv = EmptyStore
    /\ svBookId = <<>>
    /\ svTokens = <<>>
    /\ svChunkSize = 1
    /\ svChunkIndex = 0
    /\ svResult = -1
    /\ svPc = "idle"
    /\ ldIndex = 0
    /\ ldChunks = <<>>
    /\ book = None
    /\ loading = TRUE
    /\ mounted = FALSE
    /\ index = 0
    /\ isPlaying = FALSE
    /\ wpm = 0
    /\ currentToken = <<>>
    /\ chunkCache = <<>>
    /\ timeoutRef = 0
    /\ timers = {}
    /\ inflight = EmptyBag
    /\ fcChapters = <<>>
    /\ fcIndex = 0
    /\ fcResults = <<>>
    /\ tkText = <<>>
    /\ tkPc = "idle"
    /\ tkParagraphs = <<>>
    /\ tkI = 0
    /\ tkTokens = <<>>
    /\ tkSync = <<>>
    /\ progress = <<>>
    /\ imKind = "none"
    /\ imFile = <<>>
    /\ imPc = "idle"
    /\ imSections = <<>>
    /\ imExtracted = <<>>
    /\ imI = 0
    /\ imTokens = <<>>
    /\ imChapters = <<>>
    /\ imTextLength = 0
    /\ imResult = None
    /\ imError = ""
    /\ dlToken = <<>>
    /\ dlWpm = 0
    /\ dlPauses = FALSE
    /\ dlDelay = [num |-> 0, den |-> 1]
    /\ dlPc = "idle"
    /\ orpToken = <<>>
    /\ orpEnabled = FALSE
    /\ orpSize = 0
    /\ orpMaxWidth = 0
    /\ orpLayout = <<>>
    /\ orpPc = "idle"
    /\ ovInitial = <<>>
    /\ ovCalls = <<>>
    /\ lbPc = "none"
    /\ lbArg = <<>>
    /\ lbBooks = <<>>
    /\ lbKeys = {}
    /\ lbHistory = <<>>

\* The call normalizeChapters(chInput, chTokenCount)
NormalizeChapters ==
    /\ chPc = "input"
    /\ chOutput' = normalizeChapters(chInput, chTokenCount)
    /\ chPc' = "done"
    /\ UNCHANGED <<chInput, chTokenCount, storeVars, readerVars, findVars, textVars, libraryVars, importVars, delayVars, orpVars, overlapVars>>

NextChapters == NormalizeChapters

SpecChapters == InitChapters /\ [][NextChapters]_vars

(***************************************************************************)
(* Key/value store: keys, JSON values, saveTokenChunks, loadTokenChunk     *)
(*                                                                         *)
(* Strings are sequences of one-character strings, so that key building,   *)
(* JSON.stringify and JSON.parse are computed character by character.      *)
(***************************************************************************)
\* Bounds of the token sequences saved
MaxSaveTokens == 4
MaxSaveChunkSize == 3

QUOTE == "\""
BACKSLASH == "\\"

\* The tokens explored: a plain word, a quote, a word ending in a backslash,
\* a comma and a closing bracket
SampleTokens == {<<"a">>, <<QUOTE>>, <<"b", BACKSLASH>>, <<",">>, <<"]">>}

DigitChars == <<"0", "1", "2", "3", "4", "5", "6", "7", "8", "9">>

\* Number.prototype.toString for an integer n >= 0
RECURSIVE NumberToString(_)
NumberToString(n) ==
    IF n < 10 THEN <<DigitChars[n + 1]>>
    ELSE NumberToString(n \div 10) \o <<DigitChars[(n % 10) + 1]>>

\* TOKEN_CHUNK_PREFIX, one opaque leading symbol of the key
TOKEN_CHUNK_PREFIX == <<"tokenchunk:">>

tokenChunkKey(bookId, chunkIndex) ==
    TOKEN_CHUNK_PREFIX \o bookId \o <<"_">> \o NumberToString(chunkIndex)

\* JSON.stringify of a string: quotes around it, '"' and '\' escaped
RECURSIVE JsonEscape(_)
JsonEscape(str) ==
    IF str = <<>> THEN <<>>
    ELSE (IF Head(str) \in {QUOTE, BACKSLASH} THEN <<BACKSLASH, Head(str)>>
          ELSE <<Head(str)>>) \o JsonEscape(Tail(str))

RECURSIVE JsonJoin(_)
JsonJoin(arr) ==
    IF arr = <<>> THEN <<>>
    ELSE <<QUOTE>> \o JsonEscape(Head(arr)) \o <<QUOTE>>
         \o (IF Len(arr) > 1 THEN <<",">> ELSE <<>>) \o JsonJoin(Tail(arr))

\* JSON.stringify of an array of strings
JsonStringify(arr) == <<"[">> \o JsonJoin(arr) \o <<"]">>

\* JSON.parse of the text of an array of strings: Some(array), or None where
\* JSON.parse throws
RECURSIVE JsonParseElement(_, _, _)
RECURSIVE JsonParseString(_, _, _, _)
RECURSIVE JsonParseAfter(_, _, _)
JsonParseElement(str, p, acc) ==
    IF p > Len(str) \/ str[p] # QUOTE THEN None
    ELSE JsonParseString(str, p + 1, <<>>, acc)
JsonParseString(str, p, cur, acc) ==
    IF p > Len(str) THEN None
    ELSE IF str[p] = BACKSLASH
         THEN IF p + 1 <= Len(str) /\ str[p + 1] \in {QUOTE, BACKSLASH}
              THEN JsonParseString(str, p + 2, Append(cur, str[p + 1]), acc)
              ELSE None
         ELSE IF str[p] = QUOTE THEN JsonParseAfter(str, p + 1, Append(acc, cur))
         ELSE JsonParseString(str, p + 1, Append(cur, str[p]), acc)
JsonParseAfter(str, p, acc) ==
    IF p > Len(str) THEN None
    ELSE IF str[p] = "," THEN JsonParseElement(str, p + 1, acc)
    ELSE IF str[p] = "]" /\ p = Len(str) THEN Some(acc)
    ELSE None

JsonParse(str) ==
    IF Len(str) < 2 \/ str[1] # "[" THEN None
    ELSE IF str = <<"[", "]">> THEN Some(<<>>)
    ELSE JsonParseElement(str, 2, <<>>)

\* AsyncStorage.getItem: the stored string, or None for null
GetItem(store, key) == IF key \in DOMAIN store THEN Some(store[key]) ELSE None

\* AsyncStorage.setItem
SetItem(store, key, value) ==
    [k \in DOMAIN store \cup {key} |-> IF k = key THEN value ELSE store[k]]

\* loadTokenChunk: null for a missing, empty or unparsable record
loadTokenChunk(store, bookId, chunkIndex) ==
    LET raw == GetItem(store, tokenChunkKey(bookId, chunkIndex))
    IN  IF ~raw.ok \/ raw.v = <<>> THEN None ELSE JsonParse(raw.v)

\* A faulty slice: the end index is one too small
SaveChunkSliceShort(tokens, chunkSize, chunkIndex) ==
    ArraySlice(tokens, chunkIndex * chunkSize, chunkIndex * chunkSize + chunkSize - 1)

\* The chunk saveTokenChunks writes in iteration chunkIndex
SaveChunkSlice(tokens, chunkSize, chunkIndex) ==
    ArraySlice(tokens, chunkIndex * chunkSize, chunkIndex * chunkSize + chunkSize)

\* saveTokenChunks run to completion on a store: the store it leaves
RECURSIVE SaveAllChunks(_, _, _, _, _)
SaveAllChunks(store, bookId, tokens, chunkSize, chunkIndex) ==
    IF chunkIndex >= MathCeilDiv(Len(tokens), chunkSize) THEN store
    ELSE SaveAllChunks(
             SetItem(store, tokenChunkKey(bookId, chunkIndex),
                     JsonStringify(SaveChunkSlice(tokens, chunkSize, chunkIndex))),
             bookId, tokens, chunkSize, chunkIndex + 1)

SampleBookId == <<"k", "_", "7">>
ReaderBookId == <<"r">>

\* saveTokenChunks has been called on an empty store; no reading session is
\* open
InitStore ==
    /\ kv = EmptyStore
    /\ svBookId = SampleBookId
    /\ svTokens \in SeqsUpTo(SampleTokens, MaxSaveTokens)
    /\ svChunkSize \in 1 .. MaxSaveChunkSize
    /\ svChunkIndex = 0
    /\ svResult = -1
    /\ svPc = "saving"
    /\ ldIndex = 0
    /\ ldChunks = <<>>
    /\ chInput = <<>>
    /\ chTokenCount = 0
    /\ chOutput = <<>>
    /\ chPc = "idle"
    /\ book = None
    /\ loading = TRUE
    /\ mounted = FALSE
    /\ index = 0
    /\ isPlaying = FALSE
    /\ wpm = 0
    /\ currentToken = <<>>
    /\ chunkCache = <<>>
    /\ timeoutRef = 0
    /\ timers = {}
    /\ inflight = EmptyBag
    /\ fcChapters = <<>>
    /\ fcIndex = 0
    /\ fcResults = <<>>
    /\ tkText = <<>>
    /\ tkPc = "idle"
    /\ tkParagraphs = <<>>
    /\ tkI = 0
    /\ tkTokens = <<>>
    /\ tkSync = <<>>
    /\ progress = <<>>
    /\ imKind = "none"
    /\ imFile = <<>>
    /\ imPc = "idle"
    /\ imSections = <<>>
    /\ imExtracted = <<>>
    /\ imI = 0
    /\ imTokens = <<>>
    /\ imChapters = <<>>
    /\ imTextLength = 0
    /\ imResult = None
    /\ imError = ""
    /\ dlToken = <<>>
    /\ dlWpm = 0
    /\ dlPauses = FALSE
    /\ dlDelay = [num |-> 0, den |-> 1]
    /\ dlPc = "idle"
    /\ orpToken = <<>>
    /\ orpEnabled = FALSE
    /\ orpSize = 0
    /\ orpMaxWidth = 0
    /\ orpLayout = <<>>
    /\ orpPc = "idle"
    /\ ovInitial = <<>>
    /\ ovCalls = <<>>
    /\ lbPc = "none"
    /\ lbArg = <<>>
    /\ lbBooks = <<>>
    /\ lbKeys = {}
    /\ lbHistory = <<>>

\* One iteration of the loop of saveTokenChunks: the awaited setItem
SaveChunk ==
    /\ svPc = "saving"
    /\ svChunkIndex < MathCeilDiv(Len(svTokens), svChunkSize)
    /\ kv' = SetItem(kv, tokenChunkKey(svBookId, svChunkIndex),
                     JsonStringify(SaveChunkSlice(svTokens, svChunkSize, svChunkIndex)))
    /\ svChunkIndex' = svChunkIndex + 1
    /\ UNCHANGED <<svBookId, svTokens, svChunkSize, svResult, svPc, ldIndex, ldChunks>>
    /\ UNCHANGED <<chapterVars, readerVars, findVars, textVars, libraryVars, importVars, delayVars, orpVars, overlapVars>>

\* The loop ends: saveTokenChunks returns {chunkSize, chunkCount}
SaveReturn ==
    /\ svPc = "saving"
    /\ svChunkIndex >= MathCeilDiv(Len(svTokens), svChunkSize)
    /\ svResult' = MathCeilDiv(Len(svTokens), svChunkSize)
    /\ svPc' = "saved"
    /\ UNCHANGED <<kv, svBookId, svTokens, svChunkSize, svChunkIndex, ldIndex, ldChunks>>
    /\ UNCHANGED <<chapterVars, readerVars, findVars, textVars, libraryVars, importVars, delayVars, orpVars, overlapVars>>

\* A caller reads the book back: loadTokenChunk(bookId, ldIndex), in order
LoadChunk ==
    /\ svPc = "saved"
    /\ ldIndex < svResult
    /\ ldChunks' = Append(ldChunks, loadTokenChunk(kv, svBookId, ldIndex))
    /\ ldIndex' = ldIndex + 1
    /\ UNCHANGED <<kv, svBookId, svTokens, svChunkSize, svChunkIndex, svResult, svPc>>
    /\ UNCHANGED <<chapterVars, readerVars, findVars, textVars, libraryVars, importVars, delayVars, orpVars, overlapVars>>

\* Every chunk 0 .. chunkCount-1 has been read
LoadDone ==
    /\ svPc = "saved"
    /\ ldIndex >= svResult
    /\ svPc' = "loaded"
    /\ UNCHANGED <<kv, svBookId, svTokens, svChunkSize, svChunkIndex, svResult,
                   ldIndex, ldChunks>>
    /\ UNCHANGED <<chapterVars, readerVars, findVars, textVars, libraryVars, importVars, delayVars, orpVars, overlapVars>>

NextStore == SaveChunk \/ SaveReturn \/ LoadChunk \/ LoadDone

SpecStore == InitStore /\ [][NextStore]_vars

(***************************************************************************)
(* Library: loadBooks, saveBooks, upsertBook, removeBook, saveReadingState *)
(*                                                                         *)
(* A BookMeta is modelled by its id, title, updatedAt and chunkCount.  In   *)
(* the JSON text of the book list a property name with its quotes and      *)
(* colon is one symbol.  Calls do not overlap: a call is made when none    *)
(* is running.                                                             *)
(***************************************************************************)
\* Bounds of the library histories explored
MaxLibraryOps == 3
MaxUpdatedAt == 2
MaxBookChunks == 11

\* BOOK_LIST_KEY and READING_STATE_PREFIX, each one opaque symbol
BOOK_LIST_KEY == <<"books">>
READING_STATE_PREFIX == <<"readingstate:">>

readingStateKey(bookId) == READING_STATE_PREFIX \o bookId

\* JSON.stringify of a BookMeta
JsonBook(b) ==
    <<"{", "id:", QUOTE>> \o JsonEscape(b.id) \o <<QUOTE, ",", "title:", QUOTE>>
    \o JsonEscape(b.title) \o <<QUOTE, ",", "updatedAt:">> \o NumberToString(b.updatedAt)
    \o <<",", "chunkCount:">> \o NumberToString(b.chunkCount) \o <<"}">>

RECURSIVE JsonJoinBooks(_)
JsonJoinBooks(books) ==
    IF books = <<>> THEN <<>>
    ELSE JsonBook(Head(books)) \o (IF Len(books) > 1 THEN <<",">> ELSE <<>>)
         \o JsonJoinBooks(Tail(books))

\* JSON.stringify of a BookMeta[]
JsonStringifyBooks(books) == <<"[">> \o JsonJoinBooks(books) \o <<"]">>

\* A parse result: the value read and the position after it, or a failure
Read(v, next) == [ok |-> TRUE, v |-> v, next |-> next]
NoRead == [ok |-> FALSE, v |-> <<>>, next |-> 0]

\* The string literal whose opening quote is at p - 1
RECURSIVE JsonReadString(_, _, _)
JsonReadString(str, p, cur) ==
    IF p > Len(str) THEN NoRead
    ELSE IF str[p] = BACKSLASH
         THEN IF p + 1 <= Len(str) /\ str[p + 1] \in {QUOTE, BACKSLASH}
              THEN JsonReadString(str, p + 2, Append(cur, str[p + 1]))
              ELSE NoRead
         ELSE IF str[p] = QUOTE THEN Read(cur, p + 1)
         ELSE JsonReadString(str, p + 1, Append(cur, str[p]))

DigitValue(c) == CHOOSE d \in 0 .. 9 : DigitChars[d + 1] = c
DigitSet == {DigitChars[d] : d \in 1 .. 10}

\* The number literal at p
RECURSIVE JsonReadDigits(_, _, _)
JsonReadDigits(str, p, acc) ==
    IF p <= Len(str) /\ str[p] \in DigitSet
    THEN JsonReadDigits(str, p + 1, acc * 10 + DigitValue(str[p]))
    ELSE Read(acc, p)

JsonReadNumber(str, p) ==
    IF p <= Len(str) /\ str[p] \in DigitSet THEN JsonReadDigits(str, p, 0) ELSE NoRead

\* JSON.stringify of a ReadingState, of which the index is kept; the
\* property name with its quotes and colon is one symbol
JsonReadingState(state) == <<"{", "index:">> \o NumberToString(state.index) \o <<"}">>

\* loadReadingState: null for no record or for one JSON.parse rejects
loadReadingState(store, bookId) ==
    LET key == readingStateKey(bookId)
        raw == store[key]
        number == JsonReadNumber(raw, 3)
    IN  IF key \notin DOMAIN store \/ raw = <<>> THEN None
        ELSE IF Len(raw) >= 2 /\ raw[1] = "{" /\ raw[2] = "index:" /\ number.ok
                /\ number.next = Len(raw) /\ raw[Len(raw)] = "}"
             THEN Some([index |-> number.v])
        ELSE None

\* saveReadingState: the setItem call
saveReadingState(store, bookId, state) ==
    SetItem(store, readingStateKey(bookId), JsonReadingState(state))

\* str holds the symbols syms from position p on
HasAt(str, p, syms) ==
    /\ p + Len(syms) - 1 <= Len(str)
    /\ SubSeq(str, p, p + Len(syms) - 1) = syms

\* The BookMeta object at p
JsonReadBook(str, p) ==
    IF ~HasAt(str, p, <<"{", "id:", QUOTE>>) THEN NoRead
    ELSE LET id == JsonReadString(str, p + 3, <<>>)
         IN  IF ~id.ok \/ ~HasAt(str, id.next, <<",", "title:", QUOTE>>) THEN NoRead
             ELSE LET title == JsonReadString(str, id.next + 3, <<>>)
                  IN  IF ~title.ok \/ ~HasAt(str, title.next, <<",", "updatedAt:">>)
                      THEN NoRead
                      ELSE LET updatedAt == JsonReadNumber(str, title.next + 2)
                               chunkCount == JsonReadNumber(str, updatedAt.next + 2)
                           IN  IF \/ ~updatedAt.ok
                                  \/ ~HasAt(str, updatedAt.next, <<",", "chunkCount:">>)
                                  \/ ~chunkCount.ok
                                  \/ ~HasAt(str, chunkCount.next, <<"}">>)
                               THEN NoRead
                               ELSE Read([id |-> id.v, title |-> title.v,
                                          updatedAt |-> updatedAt.v,
                                          chunkCount |-> chunkCount.v],
                                         chunkCount.next + 1)

RECURSIVE JsonReadBooks(_, _, _)
JsonReadBooks(str, p, acc) ==
    LET b == JsonReadBook(str, p)
    IN  IF ~b.ok \/ b.next > Len(str) THEN None
        ELSE IF str[b.next] = "," THEN JsonReadBooks(str, b.next + 1, Append(acc, b.v))
        ELSE IF str[b.next] = "]" /\ b.next = Len(str) THEN Some(Append(acc, b.v))
        ELSE None

\* JSON.parse of the text of a BookMeta[]: None where it throws
JsonParseBooks(str) ==
    IF Len(str) < 2 \/ str[1] # "[" THEN None
    ELSE IF str = <<"[", "]">> THEN Some(<<>>)
    ELSE JsonReadBooks(str, 2, <<>>)

\* books.sort((a, b) => (b.updatedAt || 0) - (a.updatedAt || 0)): stable
RECURSIVE InsertByUpdatedAt(_, _)
InsertByUpdatedAt(sorted, x) ==
    IF sorted = <<>> THEN <<x>>
    ELSE IF Head(sorted).updatedAt >= x.updatedAt
         THEN <<Head(sorted)>> \o InsertByUpdatedAt(Tail(sorted), x)
         ELSE <<x>> \o sorted

RECURSIVE SortByUpdatedAt(_)
SortByUpdatedAt(books) ==
    IF books = <<>> THEN <<>>
    ELSE InsertByUpdatedAt(SortByUpdatedAt(SubSeq(books, 1, Len(books) - 1)),
                           books[Len(books)])

\* loadBooks: [] for a missing, empty or unparsable record
loadBooks(store) ==
    LET raw == GetItem(store, BOOK_LIST_KEY)
    IN  IF ~raw.ok \/ raw.v = <<>> THEN <<>>
        ELSE LET parsed == JsonParseBooks(raw.v)
             IN  IF parsed.ok THEN SortByUpdatedAt(parsed.v) ELSE <<>>

\* saveBooks
saveBooks(store, books) == SetItem(store, BOOK_LIST_KEY, JsonStringifyBooks(books))

\* A faulty upsert: the book is pushed even when its id is in the list
UpsertAlwaysPush(books, meta) == SortByUpdatedAt(Append(books, meta))

\* upsertBook between its load and its save: replace the entry with the id
\* of meta or push meta, then sort
UpsertInto(books, meta) ==
    LET found == {i \in 1 .. Len(books) : books[i].id = meta.id}
        first == CHOOSE i \in found : \A j \in found : i <= j
    IN  SortByUpdatedAt(IF found # {} THEN [books EXCEPT ![first] = meta]
                        ELSE Append(books, meta))

\* books.filter((item) => item.id !== bookId)
RECURSIVE FilterOutBook(_, _)
FilterOutBook(books, bookId) ==
    IF books = <<>> THEN <<>>
    ELSE (IF Head(books).id # bookId THEN <<Head(books)>> ELSE <<>>)
         \o FilterOutBook(Tail(books), bookId)

\* A faulty filter: only the key of the first chunk is found
IsChunkKeyOfFirst(key, bookId) == key = tokenChunkKey(bookId, 0)

\* key.startsWith(`${TOKEN_CHUNK_PREFIX}${bookId}_`)
IsChunkKeyOf(key, bookId) ==
    HasAt(key, 1, TOKEN_CHUNK_PREFIX \o bookId \o <<"_">>)

\* AsyncStorage.multiRemove
MultiRemove(store, keys) == [k \in DOMAIN store \ keys |-> store[k]]

\* The ids, titles and metadata explored: the second id begins with the
\* first followed by "_"; a title may hold a quote
LibraryBookIds == {<<"k">>, SampleBookId}
LibraryTitles == {<<"A">>, <<QUOTE, "}">>}
LibraryBooks ==
    [id : LibraryBookIds, title : LibraryTitles, updatedAt : 0 .. MaxUpdatedAt,
     chunkCount : {1}]

\* The JSON text of a ReadingState, one symbol
SampleReadingState == <<"{index:2}">>

\* The store is empty and no call is running
InitLibrary ==
    /\ kv = EmptyStore
    /\ lbPc = "idle"
    /\ lbArg = <<>>
    /\ lbBooks = <<>>
    /\ lbKeys = {}
    /\ lbHistory = <<>>
    /\ chInput = <<>>
    /\ chTokenCount = 0
    /\ chOutput = <<>>
    /\ chPc = "idle"
    /\ svBookId = <<>>
    /\ svTokens = <<>>
    /\ svChunkSize = 1
    /\ svChunkIndex = 0
    /\ svResult = -1
    /\ svPc = "idle"
    /\ ldIndex = 0
    /\ ldChunks = <<>>
    /\ book = None
    /\ loading = TRUE
    /\ mounted = FALSE
    /\ index = 0
    /\ isPlaying = FALSE
    /\ wpm = 0
    /\ currentToken = <<>>
    /\ chunkCache = <<>>
    /\ timeoutRef = 0
    /\ timers = {}
    /\ inflight = EmptyBag
    /\ fcChapters = <<>>
    /\ fcIndex = 0
    /\ fcResults = <<>>
    /\ tkText = <<>>
    /\ tkPc = "idle"
    /\ tkParagraphs = <<>>
    /\ tkI = 0
    /\ tkTokens = <<>>
    /\ tkSync = <<>>
    /\ progress = <<>>
    /\ imKind = "none"
    /\ imFile = <<>>
    /\ imPc = "idle"
    /\ imSections = <<>>
    /\ imExtracted = <<>>
    /\ imI = 0
    /\ imTokens = <<>>
    /\ imChapters = <<>>
    /\ imTextLength = 0
    /\ imResult = None
    /\ imError = ""
    /\ dlToken = <<>>
    /\ dlWpm = 0
    /\ dlPauses = FALSE
    /\ dlDelay = [num |-> 0, den |-> 1]
    /\ dlPc = "idle"
    /\ orpToken = <<>>
    /\ orpEnabled = FALSE
    /\ orpSize = 0
    /\ orpMaxWidth = 0
    /\ orpLayout = <<>>
    /\ orpPc = "idle"
    /\ ovInitial = <<>>
    /\ ovCalls = <<>>

\* The call upsertBook(meta), to the await of getItem inside loadBooks
UpsertCall ==
    /\ lbPc = "idle"
    /\ Len(lbHistory) < MaxLibraryOps
    /\ \E meta \in LibraryBooks : lbArg' = meta
    /\ lbPc' = "upsertLoading"
    /\ UNCHANGED <<kv, lbBooks, lbKeys, lbHistory>>
    /\ UNCHANGED <<chapterVars, saveVars, readerVars, findVars, textVars, importVars, delayVars, orpVars, overlapVars>>

\* getItem completes: the list is parsed, changed and sorted, and saveBooks
\* awaits setItem, which writes it
UpsertSave ==
    /\ lbPc = "upsertLoading"
    /\ lbBooks' = UpsertInto(loadBooks(kv), lbArg)
    /\ kv' = saveBooks(kv, lbBooks')
    /\ lbPc' = "upsertSaving"
    /\ UNCHANGED <<lbArg, lbKeys, lbHistory>>
    /\ UNCHANGED <<chapterVars, saveVars, readerVars, findVars, textVars, importVars, delayVars, orpVars, overlapVars>>

\* setItem completes: upsertBook returns
UpsertReturn ==
    /\ lbPc = "upsertSaving"
    /\ lbHistory' = Append(lbHistory, [op |-> "upsert", arg |-> lbArg])
    /\ lbPc' = "idle"
    /\ UNCHANGED <<kv, lbArg, lbBooks, lbKeys>>
    /\ UNCHANGED <<chapterVars, saveVars, readerVars, findVars, textVars, importVars, delayVars, orpVars, overlapVars>>

\* saveReadingState for a book, a whole call
SaveReadingState ==
    /\ lbPc = "idle"
    /\ Len(lbHistory) < MaxLibraryOps
    /\ \E bookId \in LibraryBookIds :
           /\ kv' = SetItem(kv, readingStateKey(bookId), SampleReadingState)
           /\ lbHistory' = Append(lbHistory, [op |-> "state", arg |-> bookId])
    /\ UNCHANGED <<lbPc, lbArg, lbBooks, lbKeys>>
    /\ UNCHANGED <<chapterVars, saveVars, readerVars, findVars, textVars, importVars, delayVars, orpVars, overlapVars>>

\* saveTokenChunks for a book of one or of MaxBookChunks chunks of one
\* token, a whole call
SaveBookChunks ==
    /\ lbPc = "idle"
    /\ Len(lbHistory) < MaxLibraryOps
    /\ \E bookId \in LibraryBookIds, n \in {1, MaxBookChunks} :
           /\ kv' = SaveAllChunks(kv, bookId, [i \in 1 .. n |-> <<"a">>], 1, 0)
           /\ lbHistory' = Append(lbHistory, [op |-> "chunks", arg |-> bookId])
    /\ UNCHANGED <<lbPc, lbArg, lbBooks, lbKeys>>
    /\ UNCHANGED <<chapterVars, saveVars, readerVars, findVars, textVars, importVars, delayVars, orpVars, overlapVars>>

\* The call removeBook(bookId), to the await of getItem inside loadBooks
RemoveCall ==
    /\ lbPc = "idle"
    /\ Len(lbHistory) < MaxLibraryOps
    /\ \E bookId \in LibraryBookIds : lbArg' = bookId
    /\ lbPc' = "removeLoading"
    /\ UNCHANGED <<kv, lbBooks, lbKeys, lbHistory>>
    /\ UNCHANGED <<chapterVars, saveVars, readerVars, findVars, textVars, importVars, delayVars, orpVars, overlapVars>>

\* getItem completes: saveBooks writes the list without the book
RemoveSaveBooks ==
    /\ lbPc = "removeLoading"
    /\ lbBooks' = loadBooks(kv)
    /\ kv' = saveBooks(kv, FilterOutBook(lbBooks', lbArg))
    /\ lbPc' = "removeSaving"
    /\ UNCHANGED <<lbArg, lbKeys, lbHistory>>
    /\ UNCHANGED <<chapterVars, saveVars, readerVars, findVars, textVars, importVars, delayVars, orpVars, overlapVars>>

\* setItem completes: removeItem(readingStateKey(bookId))
RemoveReadingState ==
    /\ lbPc = "removeSaving"
    /\ kv' = MultiRemove(kv, {readingStateKey(lbArg)})
    /\ lbPc' = "removeState"
    /\ UNCHANGED <<lbArg, lbBooks, lbKeys, lbHistory>>
    /\ UNCHANGED <<chapterVars, saveVars, readerVars, findVars, textVars, importVars, delayVars, orpVars, overlapVars>>

\* removeItem completes: getAllKeys is awaited and the chunk keys filtered
RemoveListKeys ==
    /\ lbPc = "removeState"
    /\ lbKeys' = {key \in DOMAIN kv : IsChunkKeyOf(key, lbArg)}
    /\ lbPc' = "removeKeys"
    /\ UNCHANGED <<kv, lbArg, lbBooks, lbHistory>>
    /\ UNCHANGED <<chapterVars, saveVars, readerVars, findVars, textVars, importVars, delayVars, orpVars, overlapVars>>

\* multiRemove(chunkKeys) if there is a key, and removeBook returns
RemoveChunks ==
    /\ lbPc = "removeKeys"
    /\ kv' = IF lbKeys # {} THEN MultiRemove(kv, lbKeys) ELSE kv
    /\ lbHistory' = Append(lbHistory, [op |-> "remove", arg |-> lbArg])
    /\ lbPc' = "idle"
    /\ UNCHANGED <<lbArg, lbBooks, lbKeys>>
    /\ UNCHANGED <<chapterVars, saveVars, readerVars, findVars, textVars, importVars, delayVars, orpVars, overlapVars>>

NextLibrary ==
    \/ UpsertCall \/ UpsertSave \/ UpsertReturn
    \/ SaveReadingState \/ SaveBookChunks
    \/ RemoveCall \/ RemoveSaveBooks \/ RemoveReadingState \/ RemoveListKeys
    \/ RemoveChunks

SpecLibrary == InitLibrary /\ [][NextLibrary]_vars

(***************************************************************************)
(* Chapter lookup: findChapterIndex                                        *)
(***************************************************************************)
\* A faulty search: a chapter starting exactly at tokenIndex is not accepted
RECURSIVE FindChapterLoopStrict(_, _, _, _, _)
FindChapterLoopStrict(chapters, tokenIndex, low, high, best) ==
    IF low > high THEN best
    ELSE LET mid == (low + high) \div 2
         IN  IF chapters[mid + 1].startToken < tokenIndex
             THEN FindChapterLoopStrict(chapters, tokenIndex, mid + 1, high, mid)
             ELSE FindChapterLoopStrict(chapters, tokenIndex, low, mid - 1, best)

\* The while loop of findChapterIndex
RECURSIVE FindChapterLoop(_, _, _, _, _)
FindChapterLoop(chapters, tokenIndex, low, high, best) ==
    IF low > high THEN best
    ELSE LET mid == (low + high) \div 2
         IN  IF chapters[mid + 1].startToken <= tokenIndex
             THEN FindChapterLoop(chapters, tokenIndex, mid + 1, high, mid)
             ELSE FindChapterLoop(chapters, tokenIndex, low, mid - 1, best)

findChapterIndex(chapters, tokenIndex) ==
    IF chapters = <<>> THEN -1
    ELSE FindChapterLoop(chapters, tokenIndex, 0, Len(chapters) - 1, 0)

\* Bounds of the chapter lists searched
MaxFindChapters == 5
MaxFindToken == 5

\* The lists of n chapters sorted ascending by startToken, with starts from
\* lo .. MaxFindToken; equal starts are allowed
RECURSIVE SortedStarts(_, _)
SortedStarts(n, lo) ==
    IF n = 0 THEN {<<>>}
    ELSE UNION {{<<s>> \o rest : rest \in SortedStarts(n - 1, s)} : s \in lo .. MaxFindToken}

ChaptersAt(starts) ==
    [i \in 1 .. Len(starts) |->
        [title |-> "T", startToken |-> starts[i],
         endToken |-> IF i < Len(starts) THEN Max(starts[i] + 1, starts[i + 1])
                      ELSE MaxFindToken + 1]]

\* findChapterIndex is about to be called on a sorted chapter list, for
\* token indexes in ascending order beginning below every start
InitFind ==
    /\ fcChapters \in {ChaptersAt(starts) :
                          starts \in UNION {SortedStarts(n, 0) : n \in 0 .. MaxFindChapters}}
    /\ fcIndex = -1
    /\ fcResults = <<>>
    /\ chInput = <<>>
    /\ chTokenCount = 0
    /\ chOutput = <<>>
    /\ chPc = "idle"
    /\ kv = EmptyStore
    /\ svBookId = <<>>
    /\ svTokens = <<>>
    /\ svChunkSize = 1
    /\ svChunkIndex = 0
    /\ svResult = -1
    /\ svPc = "idle"
    /\ ldIndex = 0
    /\ ldChunks = <<>>
    /\ book = None
    /\ loading = TRUE
    /\ mounted = FALSE
    /\ index = 0
    /\ isPlaying = FALSE
    /\ wpm = 0
    /\ currentToken = <<>>
    /\ chunkCache = <<>>
    /\ timeoutRef = 0
    /\ timers = {}
    /\ inflight = EmptyBag
    /\ tkText = <<>>
    /\ tkPc = "idle"
    /\ tkParagraphs = <<>>
    /\ tkI = 0
    /\ tkTokens = <<>>
    /\ tkSync = <<>>
    /\ progress = <<>>
    /\ imKind = "none"
    /\ imFile = <<>>
    /\ imPc = "idle"
    /\ imSections = <<>>
    /\ imExtracted = <<>>
    /\ imI = 0
    /\ imTokens = <<>>
    /\ imChapters = <<>>
    /\ imTextLength = 0
    /\ imResult = None
    /\ imError = ""
    /\ dlToken = <<>>
    /\ dlWpm = 0
    /\ dlPauses = FALSE
    /\ dlDelay = [num |-> 0, den |-> 1]
    /\ dlPc = "idle"
    /\ orpToken = <<>>
    /\ orpEnabled = FALSE
    /\ orpSize = 0
    /\ orpMaxWidth = 0
    /\ orpLayout = <<>>
    /\ orpPc = "idle"
    /\ ovInitial = <<>>
    /\ ovCalls = <<>>
    /\ lbPc = "none"
    /\ lbArg = <<>>
    /\ lbBooks = <<>>
    /\ lbKeys = {}
    /\ lbHistory = <<>>

\* The call findChapterIndex(fcChapters, fcIndex)
FindChapter ==
    /\ fcIndex <= MaxFindToken + 1
    /\ fcResults' = Append(fcResults, findChapterIndex(fcChapters, fcIndex))
    /\ fcIndex' = fcIndex + 1
    /\ UNCHANGED <<fcChapters, chapterVars, storeVars, readerVars, textVars, libraryVars, importVars, delayVars, orpVars, overlapVars>>

NextFind == FindChapter

SpecFind == InitFind /\ [][NextFind]_vars

(***************************************************************************)
(* Tokenizer: tokenize and tokenizeLargeText                               *)
(*                                                                         *)
(* A text is a sequence of one-character strings; the regular expressions  *)
(* of the source are computed character by character.                      *)
(***************************************************************************)
NL == "\n"
CR == "\r"
TAB == "\t"

\* \s and String.prototype.trim: white space and line terminators
WhiteSpace == {" ", TAB, NL, CR}
\* [\t\f\v ]
BlankChars == {" ", TAB}

\* The character classes of TOKEN_REGEX: [\p{L}\p{N}], [\-'], [.,!?;:],
\* the closing and the opening quotes and brackets
WordChars == {"a", "b", "7"}
JoinerChars == {"-", "'"}
TrailingChars == {".", ",", "!", "?", ";", ":"}
ClosingChars == {QUOTE, "'", ")", "]", "}"}
OpeningChars == {"(", "[", "{", QUOTE}

\* The length of the longest prefix of str made of characters of class
RECURSIVE RunLength(_, _)
RunLength(str, class) ==
    IF str = <<>> \/ Head(str) \notin class THEN 0
    ELSE 1 + RunLength(Tail(str), class)

\* str without its first n characters
Drop(str, n) == SubSeq(str, n + 1, Len(str))

\* .replace(/\r\n?/g, '\n')
RECURSIVE ReplaceCarriageReturns(_)
ReplaceCarriageReturns(str) ==
    IF str = <<>> THEN <<>>
    ELSE IF Head(str) = CR
         THEN <<NL>> \o ReplaceCarriageReturns(
                  IF Len(str) >= 2 /\ str[2] = NL THEN Drop(str, 2) ELSE Drop(str, 1))
         ELSE <<Head(str)>> \o ReplaceCarriageReturns(Tail(str))

\* .replace(/[\t\f\v ]+/g, ' ')
RECURSIVE CollapseBlanks(_)
CollapseBlanks(str) ==
    IF str = <<>> THEN <<>>
    ELSE IF Head(str) \in BlankChars
         THEN <<" ">> \o CollapseBlanks(Drop(str, RunLength(str, BlankChars)))
         ELSE <<Head(str)>> \o CollapseBlanks(Tail(str))

\* .replace(/\n{3,}/g, '\n\n')
RECURSIVE CollapseNewlines(_)
CollapseNewlines(str) ==
    IF str = <<>> THEN <<>>
    ELSE IF Head(str) = NL
         THEN LET n == RunLength(str, {NL})
              IN  (IF n >= 3 THEN <<NL, NL>> ELSE SubSeq(str, 1, n))
                  \o CollapseNewlines(Drop(str, n))
         ELSE <<Head(str)>> \o CollapseNewlines(Tail(str))

\* String.prototype.trim
RECURSIVE TrimEnd(_)
TrimEnd(str) ==
    IF str # <<>> /\ str[Len(str)] \in WhiteSpace
    THEN TrimEnd(SubSeq(str, 1, Len(str) - 1)) ELSE str

Trim(str) == TrimEnd(Drop(str, RunLength(str, WhiteSpace)))

normalizeText(text) ==
    Trim(CollapseNewlines(CollapseBlanks(ReplaceCarriageReturns(text))))

\* .replace(/\n{2,}/g, ' \n ')
RECURSIVE MarkBreaks(_)
MarkBreaks(str) ==
    IF str = <<>> THEN <<>>
    ELSE IF Head(str) = NL
         THEN LET n == RunLength(str, {NL})
              IN  (IF n >= 2 THEN <<" ", NL, " ">> ELSE <<NL>>) \o MarkBreaks(Drop(str, n))
         ELSE <<Head(str)>> \o MarkBreaks(Tail(str))

\* .replace(/\n/g, ' ')
RECURSIVE NewlinesToBlanks(_)
NewlinesToBlanks(str) ==
    IF str = <<>> THEN <<>>
    ELSE <<(IF Head(str) = NL THEN " " ELSE Head(str))>> \o NewlinesToBlanks(Tail(str))

\* The length of the match of (?:[\-'][\p{L}\p{N}]+)* at the head of str
RECURSIVE JoinedRunLength(_)
JoinedRunLength(str) ==
    IF Len(str) >= 2 /\ str[1] \in JoinerChars /\ str[2] \in WordChars
    THEN LET n == 1 + RunLength(Tail(str), WordChars)
         IN  n + JoinedRunLength(Drop(str, n))
    ELSE 0

\* The length of the match of TOKEN_REGEX at the head of str, where str
\* begins with a character that is not white space: a word with its joined
\* parts, trailing punctuation and closing quotes; or a run of opening
\* quotes and brackets; or one character
TokenLength(str) ==
    IF Head(str) \in WordChars
    THEN LET word == RunLength(str, WordChars)
             joined == word + JoinedRunLength(Drop(str, word))
             trailing == joined + RunLength(Drop(str, joined), TrailingChars)
         IN  trailing + RunLength(Drop(str, trailing), ClosingChars)
    ELSE IF Head(str) \in OpeningChars THEN RunLength(str, OpeningChars)
    ELSE 1

\* prepared.match(TOKEN_REGEX) ?? []
RECURSIVE MatchTokens(_)
MatchTokens(str) ==
    IF str = <<>> THEN <<>>
    ELSE IF Head(str) \in WhiteSpace THEN MatchTokens(Tail(str))
    ELSE <<SubSeq(str, 1, TokenLength(str))>> \o MatchTokens(Drop(str, TokenLength(str)))

tokenizeSegment(segment) ==
    MatchTokens(Trim(NewlinesToBlanks(MarkBreaks(segment))))

tokenize(text) == tokenizeSegment(normalizeText(text))

\* normalized.split(/\n\n+/): cur is the piece being read, str the rest
RECURSIVE SplitParagraphsFrom(_, _)
SplitParagraphsFrom(str, cur) ==
    IF str = <<>> THEN <<cur>>
    ELSE IF RunLength(str, {NL}) >= 2
         THEN <<cur>> \o SplitParagraphsFrom(Drop(str, RunLength(str, {NL})), <<>>)
         ELSE SplitParagraphsFrom(Tail(str), Append(cur, Head(str)))

SplitParagraphs(normalized) == SplitParagraphsFrom(normalized, <<>>)

\* A progress value, the exact quotient num / den
Frac(num, den) == [num |-> num, den |-> den]
FracLeq(a, b) == a.num * b.den <= b.num * a.den
FracOne == Frac(1, 1)

\* onProgress?.({ phase, progress })
ProgressEvent(phase, value) == [phase |-> phase, progress |-> value]

\* The paragraphs after which tokenizeLargeText reports and yields
YieldEvery == 8

\* The loop of tokenizeLargeText run from i until it awaits idle() or ends:
\* the tokens, the i to resume with, and the events reported on the way
RECURSIVE TokenizeLoop(_, _, _)
TokenizeLoop(paragraphs, i, tokens) ==
    IF i >= Len(paragraphs)
    THEN [tokens |-> tokens, i |-> i, done |-> TRUE,
          events |-> <<ProgressEvent("tokenizing", FracOne)>>]
    ELSE LET pushed == tokens \o tokenizeSegment(paragraphs[i + 1])
                       \o (IF i < Len(paragraphs) - 1 THEN <<<<NL>>>> ELSE <<>>)
         IN  IF i % YieldEvery = 0
             THEN [tokens |-> pushed, i |-> i + 1, done |-> FALSE,
                   events |-> <<ProgressEvent("tokenizing", Frac(i + 1, Len(paragraphs)))>>]
             ELSE TokenizeLoop(paragraphs, i + 1, pushed)

\* Bounds of the texts explored
MaxTextLen == 5
MaxParagraphs == 10

\* The characters of the short texts explored
TextChars == {"a", ".", "'", " ", NL, CR}

\* A text of n paragraphs "a." separated by blank lines
RECURSIVE ParagraphText(_)
ParagraphText(n) ==
    IF n <= 1 THEN <<"a", ".">> ELSE <<"a", ".", NL, NL>> \o ParagraphText(n - 1)

\* Texts put together from words, blanks and blank lines
MaxPieces == 5
TextPieces == {<<"a">>, <<" ">>, <<NL, NL>>}
PieceTexts == {FlattenSeq(p) : p \in SeqsUpTo(TextPieces, MaxPieces)}

SampleTexts ==
    SeqsUpTo(TextChars, MaxTextLen) \cup {ParagraphText(n) : n \in 2 .. MaxParagraphs}
        \cup PieceTexts

\* tokenize and tokenizeLargeText are about to be called on the same text
InitText ==
    /\ tkText \in SampleTexts
    /\ tkPc = "ready"
    /\ tkParagraphs = <<>>
    /\ tkI = 0
    /\ tkTokens = <<>>
    /\ tkSync = None
    /\ progress = <<>>
    /\ chInput = <<>>
    /\ chTokenCount = 0
    /\ chOutput = <<>>
    /\ chPc = "idle"
    /\ kv = EmptyStore
    /\ svBookId = <<>>
    /\ svTokens = <<>>
    /\ svChunkSize = 1
    /\ svChunkIndex = 0
    /\ svResult = -1
    /\ svPc = "idle"
    /\ ldIndex = 0
    /\ ldChunks = <<>>
    /\ book = None
    /\ loading = TRUE
    /\ mounted = FALSE
    /\ index = 0
    /\ isPlaying = FALSE
    /\ wpm = 0
    /\ currentToken = <<>>
    /\ chunkCache = <<>>
    /\ timeoutRef = 0
    /\ timers = {}
    /\ inflight = EmptyBag
    /\ fcChapters = <<>>
    /\ fcIndex = 0
    /\ fcResults = <<>>
    /\ imKind = "none"
    /\ imFile = <<>>
    /\ imPc = "idle"
    /\ imSections = <<>>
    /\ imExtracted = <<>>
    /\ imI = 0
    /\ imTokens = <<>>
    /\ imChapters = <<>>
    /\ imTextLength = 0
    /\ imResult = None
    /\ imError = ""
    /\ dlToken = <<>>
    /\ dlWpm = 0
    /\ dlPauses = FALSE
    /\ dlDelay = [num |-> 0, den |-> 1]
    /\ dlPc = "idle"
    /\ orpToken = <<>>
    /\ orpEnabled = FALSE
    /\ orpSize = 0
    /\ orpMaxWidth = 0
    /\ orpLayout = <<>>
    /\ orpPc = "idle"
    /\ ovInitial = <<>>
    /\ ovCalls = <<>>
    /\ lbPc = "none"
    /\ lbArg = <<>>
    /\ lbBooks = <<>>
    /\ lbKeys = {}
    /\ lbHistory = <<>>

\* The call tokenize(tkText)
TokenizeSync ==
    /\ tkPc # "idle"
    /\ ~tkSync.ok
    /\ tkSync' = Some(tokenize(tkText))
    /\ UNCHANGED <<tkText, tkPc, tkParagraphs, tkI, tkTokens, progress>>
    /\ UNCHANGED <<chapterVars, storeVars, readerVars, findVars, libraryVars, importVars, delayVars, orpVars, overlapVars>>

\* tokenizeLargeText(text, onProgress) from its call to its first await:
\* it returns [] at once for a text that is empty once normalized
TokenizeLargeStart(text) ==
    LET normalized == normalizeText(text)
        paragraphs == SplitParagraphs(normalized)
        run == TokenizeLoop(paragraphs, 0, <<>>)
    IN  IF normalized = <<>>
        THEN [paragraphs |-> <<>>, tokens |-> <<>>, i |-> 0, done |-> TRUE, events |-> <<>>]
        ELSE [paragraphs |-> paragraphs, tokens |-> run.tokens, i |-> run.i,
              done |-> run.done, events |-> run.events]

\* The call tokenizeLargeText(tkText, onProgress)
TokenizeLargeCall ==
    /\ tkPc = "ready"
    /\ LET start == TokenizeLargeStart(tkText)
       IN  /\ tkParagraphs' = start.paragraphs
           /\ tkTokens' = start.tokens
           /\ tkI' = start.i
           /\ progress' = progress \o start.events
           /\ tkPc' = IF start.done THEN "done" ELSE "loop"
    /\ UNCHANGED <<tkText, tkSync>>
    /\ UNCHANGED <<chapterVars, storeVars, readerVars, findVars, libraryVars, importVars, delayVars, orpVars, overlapVars>>

\* The timer of idle() fires: the loop resumes and runs to its next await
\* or to the return
TokenizeLargeResume ==
    /\ tkPc = "loop"
    /\ LET run == TokenizeLoop(tkParagraphs, tkI, tkTokens)
       IN  /\ tkTokens' = run.tokens
           /\ tkI' = run.i
           /\ progress' = progress \o run.events
           /\ tkPc' = IF run.done THEN "done" ELSE "loop"
    /\ UNCHANGED <<tkText, tkParagraphs, tkSync>>
    /\ UNCHANGED <<chapterVars, storeVars, readerVars, findVars, libraryVars, importVars, delayVars, orpVars, overlapVars>>

NextText == TokenizeSync \/ TokenizeLargeCall \/ TokenizeLargeResume

SpecText == InitText /\ [][NextText]_vars

(***************************************************************************)
(* Import: importTxtFromUri, importEpubFromUri, extractEpubSections        *)
(*                                                                         *)
(* A markup document is a sequence of symbols, each one character or one   *)
(* whole tag.  An EPUB archive is modelled by what the XML parser and the  *)
(* zip reader return for it: whether it opens, what the container and the  *)
(* package document hold, the manifest items and spine references, and     *)
(* the markup stored under each path.  A path is a number, already         *)
(* resolved against the directory of the package document.  Of a BookMeta  *)
(* the title, the preview and the timestamps are left out.                 *)
(***************************************************************************)
\* Bounds of the archives and text files imported
MaxManifest == 3
MaxImportTextLen == 3

\* DEFAULT_CHUNK_SIZE of storage/keys
DEFAULT_CHUNK_SIZE == 2

\* Closing tags of blocks and line breaks, which htmlToText turns into a
\* line feed, and the other tags, which it turns into a blank
LineTags == {"</p>", "</h1>", "<br>"}
OtherTags == {"<p>", "<h1>"}

\* The replace calls of htmlToText on the tags explored
RECURSIVE ReplaceTags(_)
ReplaceTags(markup) ==
    IF markup = <<>> THEN <<>>
    ELSE <<(IF Head(markup) \in LineTags THEN NL
            ELSE IF Head(markup) \in OtherTags THEN " "
            ELSE Head(markup))>> \o ReplaceTags(Tail(markup))

normalizeReadableText(text) ==
    Trim(CollapseNewlines(CollapseBlanks(ReplaceCarriageReturns(text))))

htmlToText(markup) == normalizeReadableText(ReplaceTags(markup))

\* .replace(/<[^>]+>/g, ' ')
RECURSIVE StripTags(_)
StripTags(markup) ==
    IF markup = <<>> THEN <<>>
    ELSE <<(IF Head(markup) \in LineTags \cup OtherTags THEN " " ELSE Head(markup))>>
         \o StripTags(Tail(markup))

\* .replace(/\s+/g, ' ')
RECURSIVE CollapseWhiteSpace(_)
CollapseWhiteSpace(str) ==
    IF str = <<>> THEN <<>>
    ELSE IF Head(str) \in WhiteSpace
         THEN <<" ">> \o CollapseWhiteSpace(Drop(str, RunLength(str, WhiteSpace)))
         ELSE <<Head(str)>> \o CollapseWhiteSpace(Tail(str))

asInlineText(text) == Trim(CollapseWhiteSpace(text))

\* extractMarkupTitle on the h1 pattern: the text between the first <h1>
\* and the first </h1> after it; None for null
extractMarkupTitle(markup) ==
    LET opens == {i \in 1 .. Len(markup) : markup[i] = "<h1>"}
        open == CHOOSE i \in opens : \A j \in opens : i <= j
        closes == {i \in 1 .. Len(markup) : markup[i] = "</h1>" /\ opens # {} /\ i > open}
        close == CHOOSE i \in closes : \A j \in closes : i <= j
    IN  IF opens = {} \/ closes = {} THEN None
        ELSE LET title == asInlineText(StripTags(SubSeq(markup, open + 1, close - 1)))
             IN  IF title # <<>> THEN Some(title) ELSE None

\* fallbackChapterTitle: the stem of the file name
fallbackChapterTitle(path, i) == <<"f">> \o NumberToString(path)

\* The kinds of manifest item: a readable document, the navigation
\* document, and an item of another media type
EpubItemKinds == {"doc", "nav", "image"}

\* !manifestItem.isNav && isReadableManifestItem(manifestItem.mediaType)
IsReadingItem(item) == item.kind = "doc"

\* manifestById.get(idref): the item set last under the id, None if none
ManifestGet(manifest, idref) ==
    LET at == {i \in 1 .. Len(manifest) : manifest[i].id = idref}
    IN  IF at = {} THEN None
        ELSE Some(manifest[CHOOSE i \in at : \A j \in at : j <= i])

\* The loop over the spine: orderedSections, with acc so far and seen the
\* paths pushed
RECURSIVE SpineLoop(_, _, _, _)
SpineLoop(spineRefs, manifest, seen, acc) ==
    IF spineRefs = <<>> THEN acc
    ELSE LET got == ManifestGet(manifest, Head(spineRefs))
         IN  IF ~got.ok \/ ~IsReadingItem(got.v) \/ got.v.href \in seen
             THEN SpineLoop(Tail(spineRefs), manifest, seen, acc)
             ELSE SpineLoop(Tail(spineRefs), manifest, seen \cup {got.v.href},
                            Append(acc, [path |-> got.v.href, titleHint |-> None]))

\* The ids of the manifest in the order the Map holds them: the order in
\* which each id was first set
RECURSIVE ManifestIds(_, _)
ManifestIds(manifest, acc) ==
    IF manifest = <<>> THEN acc
    ELSE ManifestIds(Tail(manifest),
                     IF \E i \in 1 .. Len(acc) : acc[i] = Head(manifest).id THEN acc
                     ELSE Append(acc, Head(manifest).id))

\* extractSpineDocumentPaths: the sections of the spine, or those of the
\* whole manifest when the spine gives none
extractSpineDocumentPaths(opf) ==
    LET ordered == SpineLoop(opf.spine, opf.manifest, {}, <<>>)
    IN  IF ordered # <<>> THEN ordered
        ELSE SpineLoop(ManifestIds(opf.manifest, <<>>), opf.manifest, {}, <<>>)

\* getZipTextFile(zip, section.path)
GetZipTextFile(epub, path) ==
    IF path \in DOMAIN epub.files THEN epub.files[path] ELSE None

\* One iteration of the loop of extractEpubSections, after the await of
\* getZipTextFile for sections[i]: extractedSections and the events
\* reported.  0.4 + ((i + 1) / n) * 0.6 is (2n + 3(i + 1)) / 5n.
ExtractSection(epub, sections, i, extracted) ==
    LET markup == GetZipTextFile(epub, sections[i + 1].path)
        text == htmlToText(markup.v)
        title == extractMarkupTitle(markup.v)
    IN  IF ~markup.ok \/ markup.v = <<>>
        THEN [extracted |-> extracted, events |-> <<>>]
        ELSE [extracted |-> IF text # <<>>
                            THEN Append(extracted,
                                     [title |-> IF title.ok THEN title.v
                                                ELSE fallbackChapterTitle(
                                                         sections[i + 1].path, i),
                                      text |-> text])
                            ELSE extracted,
              events |-> <<ProgressEvent("reading",
                               Frac(2 * Len(sections) + 3 * (i + 1), 5 * Len(sections)))>>]

\* The sections after which importEpubFromUri yields
EpubYieldEvery == 6

\* A faulty loop: a marker is pushed after the last section too
RECURSIVE EpubTokenizeLoopTrailingMarker(_, _, _, _, _)
EpubTokenizeLoopTrailingMarker(sections, i, tokens, chapters, textLength) ==
    IF i >= Len(sections)
    THEN [tokens |-> tokens, chapters |-> chapters, textLength |-> textLength,
          i |-> i, done |-> TRUE, events |-> <<>>]
    ELSE LET section == sections[i + 1]
             sectionTokens == tokenize(section.text)
             has == sectionTokens # <<>>
             tokens2 == IF has THEN tokens \o sectionTokens \o <<<<NL>>>> ELSE tokens
             chapters2 == IF has
                          THEN Append(chapters,
                                   [title |-> section.title,
                                    startToken |-> Len(tokens),
                                    endToken |-> Len(tokens) + Len(sectionTokens)])
                          ELSE chapters
             textLength2 == IF has THEN textLength + 2 + Len(section.text) ELSE textLength
             event == ProgressEvent("tokenizing", Frac(i + 1, Len(sections)))
         IN  IF i % EpubYieldEvery = 0
             THEN [tokens |-> tokens2, chapters |-> chapters2, textLength |-> textLength2,
                   i |-> i + 1, done |-> FALSE, events |-> <<event>>]
             ELSE LET rest == EpubTokenizeLoopTrailingMarker(sections, i + 1, tokens2,
                                                             chapters2, textLength2)
                  IN  [rest EXCEPT !.events = <<event>> \o rest.events]

\* The tokenizing loop of importEpubFromUri run from i until it awaits
\* idle() or ends
RECURSIVE EpubTokenizeLoop(_, _, _, _, _)
EpubTokenizeLoop(sections, i, tokens, chapters, textLength) ==
    IF i >= Len(sections)
    THEN [tokens |-> tokens, chapters |-> chapters, textLength |-> textLength,
          i |-> i, done |-> TRUE, events |-> <<>>]
    ELSE LET section == sections[i + 1]
             sectionTokens == tokenize(section.text)
             has == sectionTokens # <<>>
             marker == has /\ i < Len(sections) - 1
             tokens2 == IF has
                        THEN tokens \o sectionTokens \o (IF marker THEN <<<<NL>>>> ELSE <<>>)
                        ELSE tokens
             chapters2 == IF has
                          THEN Append(chapters,
                                   \* section.title is never empty
                                   [title |-> section.title,
                                    startToken |-> Len(tokens),
                                    endToken |-> Len(tokens) + Len(sectionTokens)])
                          ELSE chapters
             textLength2 == IF has
                            THEN textLength + (IF marker THEN 2 ELSE 0) + Len(section.text)
                            ELSE textLength
             event == ProgressEvent("tokenizing", Frac(i + 1, Len(sections)))
         IN  IF i % EpubYieldEvery = 0
             THEN [tokens |-> tokens2, chapters |-> chapters2, textLength |-> textLength2,
                   i |-> i + 1, done |-> FALSE, events |-> <<event>>]
             ELSE LET rest == EpubTokenizeLoop(sections, i + 1, tokens2, chapters2,
                                               textLength2)
                  IN  [rest EXCEPT !.events = <<event>> \o rest.events]

\* The ImportedBook an import returns
ImportedBook(bookId, sourceType, textLength, tokens, chapters) ==
    [meta |-> [id |-> bookId, sourceType |-> sourceType, textLength |-> textLength,
               tokenCount |-> Len(tokens), chunkSize |-> DEFAULT_CHUNK_SIZE,
               chunkCount |-> MathCeilDiv(Len(tokens), DEFAULT_CHUNK_SIZE),
               chapters |-> chapters],
     initialState |-> [bookId |-> bookId, index |-> 0]]

\* The markup documents explored: one with no text, one with a heading and
\* a sentence, one of two paragraphs
MarkupSamples ==
    {<<"<p>", " ", "</p>">>,
     <<"<h1>", "b", "</h1>", "a", ".">>,
     <<"a", "<br>", "<br>", "a">>}

\* The manifests of n items: item i has id i and the path i or the path 1
RECURSIVE ManifestsOf(_)
ManifestsOf(n) ==
    IF n = 0 THEN {<<>>}
    ELSE {Append(m, item) : m \in ManifestsOf(n - 1),
                            item \in [id : {n}, href : {1, n}, kind : EpubItemKinds]}

\* The spines explored for a manifest of n items: none, every item in
\* order, in reverse order, with a reference to no item first, and twice
SpinesOf(n) ==
    LET inOrder == [i \in 1 .. n |-> i]
    IN  {<<>>, inOrder, [i \in 1 .. n |-> n + 1 - i], <<0>> \o inOrder, inOrder \o inOrder}

\* The archives with a container and a package document in order
SoundEpubs ==
    UNION {[zip : {"ok"}, container : {"ok"}, opf : {"ok"},
            manifest : ManifestsOf(n), spine : SpinesOf(n),
            files : [1 .. n -> {None} \cup {Some(m) : m \in MarkupSamples}]] :
           n \in 0 .. MaxManifest}

\* An archive of more sections than importEpubFromUri tokenizes between
\* two yields; the document of its third section is missing
MaxLongManifest == 7
LongEpub ==
    [zip |-> "ok", container |-> "ok", opf |-> "ok",
     manifest |-> [i \in 1 .. MaxLongManifest |-> [id |-> i, href |-> i, kind |-> "doc"]],
     spine |-> [i \in 1 .. MaxLongManifest |-> i],
     files |-> [i \in 1 .. MaxLongManifest |->
                   IF i = 3 THEN None ELSE Some(<<"a", "<br>", "<br>", "a">>)]]

\* The archives that do not open, or lack the container, its root-file
\* path, or a package document that parses
BrokenEpubs ==
    {e \in [zip : {"ok", "corrupt"}, container : {"ok", "missing", "noRootfile"},
            opf : {"ok", "missing", "malformed"},
            manifest : {<<[id |-> 1, href |-> 1, kind |-> "doc"]>>}, spine : {<<1>>},
            files : {[f \in {1} |-> Some(<<"a">>)]}] :
        e.zip # "ok" \/ e.container # "ok" \/ e.opf # "ok"}

\* An import is about to be called on a text file or on an EPUB archive,
\* with an empty store
InitImport ==
    /\ imKind \in {"txt", "epub"}
    /\ imFile \in IF imKind = "txt"
                  THEN SeqsUpTo(TextChars, MaxImportTextLen)
                       \cup {ParagraphText(n) : n \in 2 .. MaxParagraphs}
                  ELSE SoundEpubs \cup BrokenEpubs \cup {LongEpub}
    /\ imPc = "ready"
    /\ imSections = <<>>
    /\ imExtracted = <<>>
    /\ imI = 0
    /\ imTokens = <<>>
    /\ imChapters = <<>>
    /\ imTextLength = 0
    /\ imResult = None
    /\ imError = ""
    /\ kv = EmptyStore
    /\ tkText = <<>>
    /\ tkPc = "idle"
    /\ tkParagraphs = <<>>
    /\ tkI = 0
    /\ tkTokens = <<>>
    /\ tkSync = None
    /\ progress = <<>>
    /\ chInput = <<>>
    /\ chTokenCount = 0
    /\ chOutput = <<>>
    /\ chPc = "idle"
    /\ svBookId = <<>>
    /\ svTokens = <<>>
    /\ svChunkSize = 1
    /\ svChunkIndex = 0
    /\ svResult = -1
    /\ svPc = "idle"
    /\ ldIndex = 0
    /\ ldChunks = <<>>
    /\ book = None
    /\ loading = TRUE
    /\ mounted = FALSE
    /\ index = 0
    /\ isPlaying = FALSE
    /\ wpm = 0
    /\ currentToken = <<>>
    /\ chunkCache = <<>>
    /\ timeoutRef = 0
    /\ timers = {}
    /\ inflight = EmptyBag
    /\ fcChapters = <<>>
    /\ fcIndex = 0
    /\ fcResults = <<>>
    /\ dlToken = <<>>
    /\ dlWpm = 0
    /\ dlPauses = FALSE
    /\ dlDelay = [num |-> 0, den |-> 1]
    /\ dlPc = "idle"
    /\ orpToken = <<>>
    /\ orpEnabled = FALSE
    /\ orpSize = 0
    /\ orpMaxWidth = 0
    /\ orpLayout = <<>>
    /\ orpPc = "idle"
    /\ ovInitial = <<>>
    /\ ovCalls = <<>>
    /\ lbPc = "none"
    /\ lbArg = <<>>
    /\ lbBooks = <<>>
    /\ lbKeys = {}
    /\ lbHistory = <<>>

\* throw new Error(message): the import ends in failure
Fails(message) ==
    /\ imPc' = "failed"
    /\ imError' = message

\* importTxtFromUri is called: the first reading event, and the await of
\* readAsStringAsync
ImportTxtCall ==
    /\ imKind = "txt" /\ imPc = "ready"
    /\ progress' = Append(progress, ProgressEvent("reading", Frac(1, 10)))
    /\ imPc' = "txtReading"
    /\ UNCHANGED <<imKind, imFile, imSections, imExtracted, imI, imTokens, imChapters,
                   imTextLength, imResult, imError>>
    /\ UNCHANGED <<tkText, tkPc, tkParagraphs, tkI, tkTokens, tkSync>>
    /\ UNCHANGED <<chapterVars, storeVars, readerVars, findVars, libraryVars, delayVars, orpVars, overlapVars>>

\* The file has been read: reading is complete, an empty text fails, else
\* tokenizeLargeText runs to its first await
ImportTxtRead ==
    /\ imPc = "txtReading"
    /\ LET start == TokenizeLargeStart(imFile)
           read == Append(progress, ProgressEvent("reading", FracOne))
       IN  IF Trim(imFile) = <<>>
           THEN /\ Fails("This file is empty.")
                /\ progress' = read
                /\ UNCHANGED <<tkText, tkPc, tkParagraphs, tkI, tkTokens, imTokens>>
           ELSE /\ tkText' = imFile
                /\ tkParagraphs' = start.paragraphs
                /\ tkTokens' = start.tokens
                /\ tkI' = start.i
                /\ IF start.done
                   THEN /\ tkPc' = "done"
                        /\ imTokens' = start.tokens
                        /\ IF start.tokens = <<>>
                           THEN /\ Fails("Could not parse readable text from this file.")
                                /\ progress' = read \o start.events
                           ELSE /\ imPc' = "saving"
                                /\ UNCHANGED imError
                                /\ progress' = (read \o start.events)
                                       \o <<ProgressEvent("saving", Frac(1, 5))>>
                   ELSE /\ tkPc' = "loop"
                        /\ imPc' = "txtTokenizing"
                        /\ progress' = read \o start.events
                        /\ UNCHANGED <<imTokens, imError>>
    /\ UNCHANGED <<imKind, imFile, imSections, imExtracted, imI, imChapters, imTextLength,
                   imResult, tkSync>>
    /\ UNCHANGED <<chapterVars, storeVars, readerVars, findVars, libraryVars, delayVars, orpVars, overlapVars>>

\* The timer of idle() fires inside tokenizeLargeText: its loop runs to the
\* next await; when it returns, the import goes on to the await of
\* saveTokenChunks
ImportTxtTokenize ==
    /\ imPc = "txtTokenizing"
    /\ LET run == TokenizeLoop(tkParagraphs, tkI, tkTokens)
           reported == progress \o run.events
       IN  /\ tkTokens' = run.tokens
           /\ tkI' = run.i
           /\ IF ~run.done
              THEN /\ progress' = reported
                   /\ UNCHANGED <<tkPc, imPc, imTokens, imError>>
              ELSE /\ tkPc' = "done"
                   /\ imTokens' = run.tokens
                   /\ IF run.tokens = <<>>
                      THEN /\ Fails("Could not parse readable text from this file.")
                           /\ progress' = reported
                      ELSE /\ imPc' = "saving"
                           /\ UNCHANGED imError
                           /\ progress' = Append(reported, ProgressEvent("saving", Frac(1, 5)))
    /\ UNCHANGED <<imKind, imFile, imSections, imExtracted, imI, imChapters, imTextLength,
                   imResult, tkText, tkParagraphs, tkSync>>
    /\ UNCHANGED <<chapterVars, storeVars, readerVars, findVars, libraryVars, delayVars, orpVars, overlapVars>>

\* importEpubFromUri is called: the first reading event, and the await of
\* readAsStringAsync
ImportEpubCall ==
    /\ imKind = "epub" /\ imPc = "ready"
    /\ progress' = Append(progress, ProgressEvent("reading", Frac(1, 20)))
    /\ imPc' = "epubReading"
    /\ UNCHANGED <<imKind, imFile, imSections, imExtracted, imI, imTokens, imChapters,
                   imTextLength, imResult, imError>>
    /\ UNCHANGED <<tkText, tkPc, tkParagraphs, tkI, tkTokens, tkSync>>
    /\ UNCHANGED <<chapterVars, storeVars, readerVars, findVars, libraryVars, delayVars, orpVars, overlapVars>>

\* The file has been read: extractEpubSections reports 0.2 and awaits
\* JSZip.loadAsync
EpubOpen ==
    /\ imPc = "epubReading"
    /\ progress' = Append(progress, ProgressEvent("reading", Frac(1, 5)))
    /\ imPc' = "epubOpening"
    /\ UNCHANGED <<imKind, imFile, imSections, imExtracted, imI, imTokens, imChapters,
                   imTextLength, imResult, imError>>
    /\ UNCHANGED <<tkText, tkPc, tkParagraphs, tkI, tkTokens, tkSync>>
    /\ UNCHANGED <<chapterVars, storeVars, readerVars, findVars, libraryVars, delayVars, orpVars, overlapVars>>

\* loadAsync settles: a file that is no zip archive rejects; else 0.4 is
\* reported and loadPackagePath awaits the container descriptor
EpubOpened ==
    /\ imPc = "epubOpening"
    /\ IF imFile.zip # "ok"
       THEN /\ Fails("Corrupted zip")
            /\ UNCHANGED progress
       ELSE /\ imPc' = "epubContainer"
            /\ progress' = Append(progress, ProgressEvent("reading", Frac(2, 5)))
            /\ UNCHANGED imError
    /\ UNCHANGED <<imKind, imFile, imSections, imExtracted, imI, imTokens, imChapters,
                   imTextLength, imResult>>
    /\ UNCHANGED <<tkText, tkPc, tkParagraphs, tkI, tkTokens, tkSync>>
    /\ UNCHANGED <<chapterVars, storeVars, readerVars, findVars, libraryVars, delayVars, orpVars, overlapVars>>

\* A faulty check: a container without a root-file path is accepted
ContainerErrorLenient(epub) ==
    IF epub.container = "missing" THEN "Invalid EPUB: META-INF/container.xml is missing."
    ELSE ""

\* loadPackagePath after its await: the message of the error it throws, ""
\* when it returns the path
ContainerError(epub) ==
    IF epub.container = "missing" THEN "Invalid EPUB: META-INF/container.xml is missing."
    ELSE IF epub.container = "noRootfile"
         THEN "Invalid EPUB: package document path not found."
    ELSE ""

\* The container descriptor has been read: loadPackagePath throws or
\* returns, and the package document is awaited
EpubContainerRead ==
    /\ imPc = "epubContainer"
    /\ IF ContainerError(imFile) # ""
       THEN Fails(ContainerError(imFile))
       ELSE /\ imPc' = "epubPackage"
            /\ UNCHANGED imError
    /\ UNCHANGED <<imKind, imFile, imSections, imExtracted, imI, imTokens, imChapters,
                   imTextLength, imResult>>
    /\ UNCHANGED textVars
    /\ UNCHANGED <<chapterVars, storeVars, readerVars, findVars, libraryVars, delayVars, orpVars, overlapVars>>

\* What extractEpubSections throws once the package document has been
\* awaited, "" when the reading order has a section
PackageError(epub) ==
    IF epub.opf = "missing" THEN "Invalid EPUB: package document could not be read."
    ELSE IF epub.opf = "malformed" THEN "Invalid EPUB: malformed package document."
    ELSE IF extractSpineDocumentPaths(epub) = <<>>
         THEN "This EPUB does not contain readable chapter documents."
    ELSE ""

\* The package document has been read: the reading order is built and the
\* markup of its first section awaited
EpubPackageRead ==
    /\ imPc = "epubPackage"
    /\ IF PackageError(imFile) # ""
       THEN /\ Fails(PackageError(imFile))
            /\ UNCHANGED imSections
       ELSE /\ imSections' = extractSpineDocumentPaths(imFile)
            /\ imPc' = "epubSections"
            /\ UNCHANGED imError
    /\ UNCHANGED <<imKind, imFile, imExtracted, imI, imTokens, imChapters, imTextLength,
                   imResult>>
    /\ UNCHANGED textVars
    /\ UNCHANGED <<chapterVars, storeVars, readerVars, findVars, libraryVars, delayVars, orpVars, overlapVars>>

\* The markup of sections[imI] has been read.  Not the last section: the
\* next one is awaited.  The last: extractEpubSections returns, no
\* extracted section fails the import, else the tokenizing loop runs to
\* its first await.
EpubSectionRead ==
    /\ imPc = "epubSections"
    /\ LET step == ExtractSection(imFile, imSections, imI, imExtracted)
           reported == progress \o step.events
           run == EpubTokenizeLoop(step.extracted, 0, <<>>, <<>>, 0)
       IN  /\ imExtracted' = step.extracted
           /\ IF imI + 1 < Len(imSections)
              THEN /\ imI' = imI + 1
                   /\ progress' = reported
                   /\ UNCHANGED <<imPc, imTokens, imChapters, imTextLength, imError>>
              ELSE IF step.extracted = <<>>
              THEN /\ Fails("Could not extract readable text from this EPUB.")
                   /\ progress' = reported
                   /\ UNCHANGED <<imI, imTokens, imChapters, imTextLength>>
              ELSE /\ imPc' = "epubTokenizing"
                   /\ imI' = run.i
                   /\ imTokens' = run.tokens
                   /\ imChapters' = run.chapters
                   /\ imTextLength' = run.textLength
                   /\ progress' = reported \o run.events
                   /\ UNCHANGED imError
    /\ UNCHANGED <<imKind, imFile, imSections, imResult>>
    /\ UNCHANGED <<tkText, tkPc, tkParagraphs, tkI, tkTokens, tkSync>>
    /\ UNCHANGED <<chapterVars, storeVars, readerVars, findVars, libraryVars, delayVars, orpVars, overlapVars>>

\* The timer of idle() fires inside importEpubFromUri: the loop runs to its
\* next await, or ends and the import goes on to the await of
\* saveTokenChunks
EpubTokenize ==
    /\ imPc = "epubTokenizing"
    /\ LET run == EpubTokenizeLoop(imExtracted, imI, imTokens, imChapters, imTextLength)
           reported == progress \o run.events
       IN  /\ imI' = run.i
           /\ imTokens' = run.tokens
           /\ imChapters' = run.chapters
           /\ imTextLength' = run.textLength
           /\ IF ~run.done
              THEN /\ progress' = reported
                   /\ UNCHANGED <<imPc, imError>>
              ELSE IF run.tokens = <<>>
              THEN /\ Fails("Could not parse readable text from this EPUB.")
                   /\ progress' = reported
              ELSE /\ imPc' = "saving"
                   /\ progress' = Append(reported, ProgressEvent("saving", Frac(1, 5)))
                   /\ UNCHANGED imError
    /\ UNCHANGED <<imKind, imFile, imSections, imExtracted, imResult>>
    /\ UNCHANGED <<tkText, tkPc, tkParagraphs, tkI, tkTokens, tkSync>>
    /\ UNCHANGED <<chapterVars, storeVars, readerVars, findVars, libraryVars, delayVars, orpVars, overlapVars>>

\* saveTokenChunks has written every chunk and returns: the last saving
\* event, and the import returns the ImportedBook
ImportSaved ==
    /\ imPc = "saving"
    /\ kv' = SaveAllChunks(kv, SampleBookId, imTokens, DEFAULT_CHUNK_SIZE, 0)
    /\ progress' = Append(progress, ProgressEvent("saving", FracOne))
    /\ imResult' = Some(ImportedBook(SampleBookId, imKind,
                            IF imKind = "txt" THEN Len(imFile) ELSE imTextLength,
                            imTokens,
                            IF imKind = "txt"
                            THEN <<[title |-> <<"Full Text">>, startToken |-> 0,
                                    endToken |-> Len(imTokens)]>>
                            ELSE imChapters))
    /\ imPc' = "done"
    /\ UNCHANGED <<imKind, imFile, imSections, imExtracted, imI, imTokens, imChapters,
                   imTextLength, imError>>
    /\ UNCHANGED <<tkText, tkPc, tkParagraphs, tkI, tkTokens, tkSync>>
    /\ UNCHANGED <<chapterVars, saveVars, readerVars, findVars, libraryVars, delayVars, orpVars, overlapVars>>

NextImport ==
    \/ ImportTxtCall \/ ImportTxtRead \/ ImportTxtTokenize
    \/ ImportEpubCall \/ EpubOpen \/ EpubOpened \/ EpubContainerRead \/ EpubPackageRead
    \/ EpubSectionRead \/ EpubTokenize
    \/ ImportSaved

SpecImport == InitImport /\ [][NextImport]_vars

(***************************************************************************)
(* Reading session: ReaderScreen and usePlayback                           *)
(*                                                                         *)
(* A step is one task of the JavaScript event loop together with the       *)
(* renders and effects it causes: an event handler, a timer callback or    *)
(* the completion of a storage read, followed by the microtasks it queues  *)
(* (the continuations of awaits that did not have to read the store), the  *)
(* React commit and the effects of that commit.  Storage reads are the     *)
(* only points where other tasks interleave with a suspended call.         *)
(***************************************************************************)
\* Bounds of the sessions explored
MaxTokens == 5
MaxInflight == 2

\* The chunk sizes of the books opened: with chunks of one token a book of
\* MaxTokens tokens has more chunks than the cache holds
ReaderChunkSizes == {1, 2}

\* The cache bound of ensureChunk, the jump distance of the -10/+10 buttons
CacheLimit == 4
JumpDelta == 10

WpmValues == {300}

\* The token sequence of the book opened: one distinct word per index
Letters == <<"a", "b", "c", "d", "e", "f", "g", "h", "i", "j", "k", "l", "m", "n">>
BookTokens(n) == [i \in 1 .. n |-> <<Letters[i]>>]

\* The raw chapter list stored with the book: the last start lies past the end
BookChapters(n) ==
    << [title |-> "T", startToken |-> Num(0), endToken |-> NaN],
       [title |-> "", startToken |-> Num(n \div 2), endToken |-> NaN],
       [title |-> "T", startToken |-> Num(n + 3), endToken |-> NaN] >>

\* The BookMeta that loadBooks finds for the book saved in the store
StoredBook ==
    [id |-> svBookId, tokenCount |-> Len(svTokens), chunkSize |-> svChunkSize,
     chunkCount |-> svResult, chapters |-> BookChapters(Len(svTokens))]

\* ---- chunkCacheRef: a Map, iterated in insertion order ----
CacheKeys(cache) == {cache[i].k : i \in 1 .. Len(cache)}

\* Map.prototype.get
CacheGet(cache, k) ==
    IF k \in CacheKeys(cache)
    THEN Some((CHOOSE e \in {cache[i] : i \in 1 .. Len(cache)} : e.k = k).v)
    ELSE None

\* A faulty Map: setting a key already present moves it to the end
CacheSetMoveToEnd(cache, k, v) ==
    Append(SelectSeq(cache, LAMBDA e : e.k # k), [k |-> k, v |-> v])

\* Map.prototype.set: a key already present keeps its place
CacheSet(cache, k, v) ==
    IF k \in CacheKeys(cache)
    THEN [i \in 1 .. Len(cache) |-> IF cache[i].k = k THEN [k |-> k, v |-> v] ELSE cache[i]]
    ELSE Append(cache, [k |-> k, v |-> v])

\* A faulty ensureChunk: the cache is not trimmed
EnsureChunkLoadedNoEvict(cache, k, loaded) ==
    IF loaded.ok THEN CacheSet(cache, k, loaded.v) ELSE cache

\* ensureChunk after its read: store the chunk if there is one, then drop the
\* first key of the Map if more than CacheLimit are held
EnsureChunkLoaded(cache, k, loaded) ==
    LET stored == IF loaded.ok THEN CacheSet(cache, k, loaded.v) ELSE cache
    IN  IF Len(stored) > CacheLimit THEN Tail(stored) ELSE stored

\* ensureChunk before its read: TRUE when it has to read chunk k from the store
EnsureChunkReads(b, cache, k) ==
    /\ k >= 0
    /\ k < b.chunkCount
    /\ k \notin CacheKeys(cache)

\* A faulty resolveToken: the offset within the chunk is ignored
resolveTokenNoOffset(b, cache, tokenIndex) ==
    IF tokenIndex < 0 \/ tokenIndex >= b.tokenCount THEN None
    ELSE LET chunk == CacheGet(cache, tokenIndex \div b.chunkSize)
         IN  IF ~chunk.ok \/ chunk.v = <<>> THEN None ELSE Some(chunk.v[1])

\* resolveToken: null outside the book or when the chunk is not in the cache
resolveToken(b, cache, tokenIndex) ==
    IF tokenIndex < 0 \/ tokenIndex >= b.tokenCount THEN None
    ELSE LET chunk == CacheGet(cache, tokenIndex \div b.chunkSize)
             offset == tokenIndex % b.chunkSize
         IN  IF ~chunk.ok THEN None
             ELSE IF offset + 1 <= Len(chunk.v) THEN Some(chunk.v[offset + 1])
             ELSE None

\* A resolved token that is truthy: not null and not the empty string
Truthy(token) == token.ok /\ token.v # <<>>

\* ---- suspended calls ----
\* A call of primeAroundIndex(tok) (boot: the call made by bootstrap) is
\* suspended in phase 1 on the read of chunk floor(tok/chunkSize), in phase 2
\* on the read of the next chunk; bootstrap is in phase 0 on the read of chunk
\* 0.  Phase 3: the call has run past its last await.
PrimeChunk(b, tok) == tok \div b.chunkSize

AwaitedChunk(b, op) ==
    IF op.phase = 0 THEN 0 ELSE PrimeChunk(b, op.tok) + op.phase - 1

\* The phase in which primeAroundIndex(tok) next suspends, entering at `from`
NextPhase(b, cache, tok, from) ==
    IF from <= 1 /\ EnsureChunkReads(b, cache, PrimeChunk(b, tok)) THEN 1
    ELSE IF from <= 2 /\ EnsureChunkReads(b, cache, PrimeChunk(b, tok) + 1) THEN 2
    ELSE 3

RECURSIVE BagOfSeq(_)
BagOfSeq(ops) == IF ops = <<>> THEN EmptyBag ELSE SetToBag({Head(ops)}) (+) BagOfSeq(Tail(ops))

\* ---- usePlayback ----
\* The id setTimeout returns: one no pending timer has
FreshTimerId(tms) == CHOOSE id \in 1 .. Cardinality(tms) + 1 : \A t \in tms : t.id # id

\* A faulty effect: the timer held is not cleared
PlaybackEffectNoClear(b, idx, playing, cache, tms, ref) ==
    IF ~playing THEN [isPlaying |-> FALSE, timers |-> tms, timeoutRef |-> ref]
    ELSE IF ~Truthy(resolveToken(b, cache, idx))
         THEN [isPlaying |-> FALSE, timers |-> tms, timeoutRef |-> ref]
         ELSE [isPlaying |-> TRUE,
               timers |-> tms \cup {[id |-> FreshTimerId(tms), index |-> idx]},
               timeoutRef |-> FreshTimerId(tms)]

\* A faulty effect: onFinished is not called for a token that does not resolve
PlaybackEffectNoFinished(b, idx, playing, cache, tms, ref) ==
    LET cleared == {t \in tms : t.id # ref}
    IN  IF ~playing THEN [isPlaying |-> FALSE, timers |-> cleared, timeoutRef |-> 0]
        ELSE IF ~Truthy(resolveToken(b, cache, idx))
             THEN [isPlaying |-> TRUE, timers |-> cleared, timeoutRef |-> 0]
             ELSE [isPlaying |-> TRUE,
                   timers |-> cleared \cup {[id |-> FreshTimerId(cleared), index |-> idx]},
                   timeoutRef |-> FreshTimerId(cleared)]

\* The effect of usePlayback, run after a render with the values given:
\* the timer held is cleared; when playing, the token is resolved, and
\* either onFinished stops playback or a timer is set for this index.
PlaybackEffect(b, idx, playing, cache, tms, ref) ==
    LET cleared == {t \in tms : t.id # ref}
    IN  IF ~playing THEN [isPlaying |-> FALSE, timers |-> cleared, timeoutRef |-> 0]
        ELSE IF ~Truthy(resolveToken(b, cache, idx))
             \* onFinished: setIsPlaying(false); the next run only clears
             THEN [isPlaying |-> FALSE, timers |-> cleared, timeoutRef |-> 0]
             ELSE [isPlaying |-> TRUE,
                   timers |-> cleared \cup {[id |-> FreshTimerId(cleared), index |-> idx]},
                   timeoutRef |-> FreshTimerId(cleared)]

\* ---- persistNow ----
\* AsyncStorage serves its requests in the order they are made, so the
\* record a setItem call writes is in the store from the call on.  The
\* upsertBook that follows the await of saveReadingState writes the book
\* list only; SpecLibrary models it.
\* A faulty persistNow: the index of the render before is stored
persistNowStale(store, b, idx) ==
    IF ~b.ok THEN store
    ELSE saveReadingState(store, b.v.id, [index |-> Max(0, idx - 1)])

\* persistNow(), called when indexRef.current is idx: nothing without a
\* book, else saveReadingState is called with that index
persistNow(store, b, idx) ==
    IF ~b.ok THEN store
    ELSE saveReadingState(store, b.v.id, [index |-> idx])

\* ---- one task and what follows it ----
\* b: the book; idx2, playing2, wpm2: the state the task sets;
\* cache2: the cache the task leaves; tms: the timers still pending;
\* pending: the calls that stay suspended;
\* calls: the primeAroundIndex calls the task makes or resumes, each
\* [boot, tok, from] entering at phase `from`; force: the task changed state
\* not listed here; stops: the task calls persistNow() itself.  The index
\* effect adds primeAroundIndex(idx2) when the index changed.
Settle(b, idx2, playing2, wpm2, cache2, tms, pending, calls, force, stops) ==
    LET effectCalls == IF mounted /\ idx2 # index
                       THEN <<[boot |-> FALSE, tok |-> idx2, from |-> 1]>> ELSE <<>>
        all == calls \o effectCalls
        placed == [i \in 1 .. Len(all) |->
                     [boot |-> all[i].boot, tok |-> all[i].tok,
                      phase |-> NextPhase(b, cache2, all[i].tok, all[i].from)]]
        waiting == SelectSeq(placed, LAMBDA o : o.phase < 3)
        done == SelectSeq(placed, LAMBDA o : o.phase = 3)
        \* syncCurrentToken of the calls that ran to their end
        synced == IF done # <<>> /\ mounted
                     /\ Truthy(resolveToken(b, cache2, done[1].tok))
                  THEN resolveToken(b, cache2, done[1].tok).v ELSE currentToken
        loading2 == IF mounted /\ \E i \in 1 .. Len(done) : done[i].boot
                    THEN FALSE ELSE loading
        rendered == mounted /\ (force \/ idx2 # index \/ playing2 # isPlaying
                                \/ wpm2 # wpm
                                \/ synced # currentToken \/ loading2 # loading)
        played == IF rendered
                  THEN PlaybackEffect(b, idx2, playing2, cache2, tms, timeoutRef)
                  ELSE [isPlaying |-> isPlaying, timers |-> tms, timeoutRef |-> timeoutRef]
    IN  /\ BagCardinality(pending) + Len(waiting) <= MaxInflight
        \* the persist effect of the index: persistNow() when more than 3 s
        \* have passed since it last did, or the index is 15 or more from
        \* the one it then had; the clock and that index are left free
        /\ \E due \in BOOLEAN :
               /\ due => (mounted /\ idx2 # index)
               /\ kv' = IF stops \/ due THEN persistNow(kv, Some(b), idx2) ELSE kv
        /\ index' = idx2
        /\ isPlaying' = played.isPlaying
        /\ wpm' = wpm2
        /\ currentToken' = synced
        /\ loading' = loading2
        /\ chunkCache' = cache2
        /\ timers' = played.timers
        /\ timeoutRef' = played.timeoutRef
        /\ inflight' = pending (+) BagOfSeq([i \in 1 .. Len(waiting) |->
                                    [boot |-> waiting[i].boot, tok |-> waiting[i].tok,
                                     phase |-> waiting[i].phase]])

Call(tok) == [boot |-> FALSE, tok |-> tok, from |-> 1]

\* The controls are rendered: the book is loaded and has tokens
ControlsShown ==
    /\ mounted
    /\ book.ok
    /\ ~loading
    /\ book.v.tokenCount # 0

\* bootstrap, from loadBooks to its first await of ensureChunk(0): the book
\* and the stored reading state are taken over, the cache is cleared.  The
\* persist effect of the new index can only store the index just loaded.
Bootstrap ==
    /\ mounted
    /\ ~book.ok
    /\ LET state == loadReadingState(kv, StoredBook.id)
           storedIndex == IF state.ok THEN state.v.index ELSE 0
       IN
        /\ book' = Some(StoredBook)
        /\ index' = storedIndex
        /\ chunkCache' = <<>>
        /\ \E w \in WpmValues : wpm' = w
        /\ UNCHANGED <<isPlaying, currentToken, loading, timers,
                       timeoutRef>>
        \* ensureChunk(0) reads chunk 0; the index effect primes the new index
        /\ inflight' = SetToBag({[boot |-> TRUE, tok |-> storedIndex, phase |-> 0]})
                       (+) (IF storedIndex # 0
                            THEN SetToBag({[boot |-> FALSE, tok |-> storedIndex,
                                            phase |-> NextPhase(StoredBook, <<>>, storedIndex, 1)]})
                            ELSE EmptyBag)
    /\ UNCHANGED <<mounted, chapterVars, storeVars, findVars, textVars, libraryVars, importVars, delayVars, orpVars, overlapVars>>

\* The read a suspended call waits for completes: ensureChunk stores the
\* chunk and trims the cache, and the call runs on to its next read or its end
LoadComplete ==
    /\ book.ok
    /\ \E op \in BagToSet(inflight) :
        LET b == book.v
            k == AwaitedChunk(b, op)
            cache2 == EnsureChunkLoaded(chunkCache, k, loadTokenChunk(kv, b.id, k))
        IN  Settle(b, index, isPlaying, wpm, cache2, timers,
                   inflight (-) SetToBag({op}),
                   <<[boot |-> op.boot, tok |-> op.tok, from |-> op.phase + 1]>>, FALSE, FALSE)
    /\ UNCHANGED <<book, mounted, chapterVars, saveVars, findVars, textVars, libraryVars, importVars, delayVars, orpVars, overlapVars>>

\* jump(delta): the -10 / +10 buttons and the taps on the sides of the reader
Jump ==
    /\ ControlsShown
    /\ \E delta \in {-JumpDelta, JumpDelta} :
        LET next == Max(0, Min(book.v.tokenCount - 1, index + delta))
        IN  Settle(book.v, next, isPlaying, wpm, chunkCache, timers,
                   inflight, <<Call(next)>>, FALSE, FALSE)
    /\ UNCHANGED <<book, mounted, chapterVars, saveVars, findVars, textVars, libraryVars, importVars, delayVars, orpVars, overlapVars>>

\* onSlidingComplete of the progress slider, whose range is
\* [0, max(1, tokenCount - 1)]
SeekSlider ==
    /\ ControlsShown
    /\ \E value \in 0 .. Max(1, book.v.tokenCount - 1) :
        Settle(book.v, value, isPlaying, wpm, chunkCache, timers,
               inflight, <<Call(value)>>, FALSE, FALSE)
    /\ UNCHANGED <<book, mounted, chapterVars, saveVars, findVars, textVars, libraryVars, importVars, delayVars, orpVars, overlapVars>>

\* handlePlayPause
PlayPause ==
    /\ ControlsShown
    /\ IF isPlaying
       THEN Settle(book.v, index, FALSE, wpm, chunkCache, timers,
                   inflight, <<>>, FALSE, FALSE)
       ELSE IF index >= book.v.tokenCount - 1
            THEN Settle(book.v, 0, TRUE, wpm, chunkCache, timers,
                        inflight, <<Call(0)>>, FALSE, FALSE)
            ELSE Settle(book.v, index, TRUE, wpm, chunkCache, timers,
                        inflight, <<>>, FALSE, FALSE)
    /\ UNCHANGED <<book, mounted, chapterVars, saveVars, findVars, textVars, libraryVars, importVars, delayVars, orpVars, overlapVars>>

\* jumpToChapter(currentChapterIndex - 1 | + 1): the Prev Ch / Next Ch
\* buttons, shown when there is more than one chapter, each disabled at its end
JumpToChapter ==
    /\ ControlsShown
    /\ LET chapters == normalizeChapters(book.v.chapters, book.v.tokenCount)
           currentChapterIndex == findChapterIndex(chapters, index)
       IN  /\ Len(chapters) > 1
           /\ \E step \in {-1, 1} :
               /\ step = -1 => currentChapterIndex > 0
               /\ step = 1 => currentChapterIndex < Len(chapters) - 1
               /\ LET nextChapterIndex ==
                          Max(0, Min(Len(chapters) - 1, currentChapterIndex + step))
                      nextIndex == chapters[nextChapterIndex + 1].startToken
                  IN  Settle(book.v, nextIndex, FALSE, wpm, chunkCache,
                             timers, inflight, <<Call(nextIndex)>>, FALSE, FALSE)
    /\ UNCHANGED <<book, mounted, chapterVars, saveVars, findVars, textVars, libraryVars, importVars, delayVars, orpVars, overlapVars>>

\* The WPM slider: setWpm in the animation frame after onWpmSliderChange
SetWpm ==
    /\ ControlsShown
    /\ \E w \in WpmValues :
        Settle(book.v, index, isPlaying, w, chunkCache, timers,
               inflight, <<>>, TRUE, FALSE)
    /\ UNCHANGED <<book, mounted, chapterVars, saveVars, findVars, textVars, libraryVars, importVars, delayVars, orpVars, overlapVars>>

\* The punctuation pauses toggle: setPunctuationPauses(!prev) always changes
\* state, so the screen renders again.  The setting only enters the delay of
\* the timer set, which the sessions explored do not measure.
TogglePunctuationPauses ==
    /\ ControlsShown
    /\ Settle(book.v, index, isPlaying, wpm, chunkCache, timers,
              inflight, <<>>, TRUE, FALSE)
    /\ UNCHANGED <<book, mounted, chapterVars, saveVars, findVars, textVars, libraryVars, importVars, delayVars, orpVars, overlapVars>>

\* The AppState listener on a state other than 'active', and the cleanup of
\* the focus effect when the screen loses focus: setIsPlaying(false) and
\* persistNow().  Before the book is loaded neither changes anything.
Deactivate ==
    /\ mounted
    /\ book.ok
    /\ Settle(book.v, index, FALSE, wpm, chunkCache, timers,
              inflight, <<>>, FALSE, TRUE)
    /\ UNCHANGED <<book, mounted, chapterVars, saveVars, findVars, textVars, libraryVars, importVars, delayVars, orpVars, overlapVars>>

\* A faulty onAdvance: playback goes on after the advance past the last token
TimerFireKeepsPlaying ==
    /\ mounted
    /\ \E t \in timers :
        LET nextIndex == t.index + 1
        IN  IF nextIndex >= book.v.tokenCount
            THEN Settle(book.v, Max(0, book.v.tokenCount - 1), isPlaying, wpm,
                        chunkCache, timers \ {t}, inflight, <<>>, FALSE, FALSE)
            ELSE Settle(book.v, nextIndex, isPlaying, wpm, chunkCache,
                        timers \ {t}, inflight, <<>>, FALSE, FALSE)
    /\ UNCHANGED <<book, mounted, chapterVars, saveVars, findVars, textVars, libraryVars, importVars, delayVars, orpVars, overlapVars>>

\* The pending timer fires: onAdvance(index + 1) of the render that set it
TimerFire ==
    /\ mounted
    /\ \E t \in timers :
        LET nextIndex == t.index + 1
        IN  IF nextIndex >= book.v.tokenCount
            THEN Settle(book.v, Max(0, book.v.tokenCount - 1), FALSE, wpm,
                        chunkCache, timers \ {t}, inflight, <<>>, FALSE, FALSE)
            ELSE Settle(book.v, nextIndex, isPlaying, wpm, chunkCache,
                        timers \ {t}, inflight, <<>>, FALSE, FALSE)
    /\ UNCHANGED <<book, mounted, chapterVars, saveVars, findVars, textVars, libraryVars, importVars, delayVars, orpVars, overlapVars>>

\* The screen is unmounted: the cleanup of the usePlayback effect clears the
\* timer it holds; the cleanups of the focus effect and of the unmount
\* effect call persistNow(), both with the index of the last render
Unmount ==
    /\ mounted
    /\ mounted' = FALSE
    /\ timers' = {t \in timers : t.id # timeoutRef}
    /\ timeoutRef' = 0
    /\ kv' = persistNow(kv, book, index)
    /\ UNCHANGED <<book, loading, index, isPlaying, wpm, currentToken,
                   chunkCache, inflight, chapterVars, saveVars,
                   findVars, textVars, libraryVars, importVars, delayVars, orpVars, overlapVars>>

\* ---- the store a session starts from ----
\* The record of chunk k is missing (removed) or corrupt (not JSON)
RemoveItem(store, key) == [k \in DOMAIN store \ {key} |-> store[k]]

Damaged(store, bookId, k, kind) ==
    IF kind = "missing" THEN RemoveItem(store, tokenChunkKey(bookId, k))
    ELSE SetItem(store, tokenChunkKey(bookId, k), <<"[", QUOTE>>)

\* The stores explored besides the intact one: the record of the first chunk
\* is corrupt, or the record of the last chunk is missing
DamagedStores(store, bookId, chunkCount) ==
    {Damaged(store, bookId, 0, "corrupt"),
     Damaged(store, bookId, chunkCount - 1, "missing")}

ReaderTokenCounts == {1, MaxTokens}

\* The screen has been mounted for a book that saveTokenChunks has saved;
\* bootstrap has not yet found the book.  The book of MaxTokens chunks of
\* one token is read from an intact store with no reading state; for the
\* other books a reading state at the last token may be stored, or a chunk
\* record be damaged
InitReader ==
    /\ svBookId = ReaderBookId
    /\ svTokens \in {BookTokens(n) : n \in ReaderTokenCounts}
    /\ svChunkSize \in ReaderChunkSizes
    /\ svChunkIndex = MathCeilDiv(Len(svTokens), svChunkSize)
    /\ svResult = MathCeilDiv(Len(svTokens), svChunkSize)
    /\ svPc = "saved"
    /\ ldIndex = 0
    /\ ldChunks = <<>>
    /\ LET saved == SaveAllChunks(EmptyStore, svBookId, svTokens, svChunkSize, 0)
       IN  kv \in IF svChunkSize = 1 /\ Len(svTokens) > 1 THEN {saved}
                  ELSE {saved,
                        saveReadingState(saved, svBookId, [index |-> Len(svTokens) - 1])}
                       \cup DamagedStores(saved, svBookId, svResult)
    /\ book = None
    /\ loading = TRUE
    /\ mounted = TRUE
    /\ index = 0
    /\ isPlaying = FALSE
    /\ wpm \in WpmValues
    /\ currentToken = <<".", ".", ".">>
    /\ chunkCache = <<>>
    /\ timeoutRef = 0
    /\ timers = {}
    /\ inflight = EmptyBag
    /\ chInput = <<>>
    /\ chTokenCount = 0
    /\ chOutput = <<>>
    /\ chPc = "idle"
    /\ fcChapters = <<>>
    /\ fcIndex = 0
    /\ fcResults = <<>>
    /\ tkText = <<>>
    /\ tkPc = "idle"
    /\ tkParagraphs = <<>>
    /\ tkI = 0
    /\ tkTokens = <<>>
    /\ tkSync = <<>>
    /\ progress = <<>>
    /\ imKind = "none"
    /\ imFile = <<>>
    /\ imPc = "idle"
    /\ imSections = <<>>
    /\ imExtracted = <<>>
    /\ imI = 0
    /\ imTokens = <<>>
    /\ imChapters = <<>>
    /\ imTextLength = 0
    /\ imResult = None
    /\ imError = ""
    /\ dlToken = <<>>
    /\ dlWpm = 0
    /\ dlPauses = FALSE
    /\ dlDelay = [num |-> 0, den |-> 1]
    /\ dlPc = "idle"
    /\ orpToken = <<>>
    /\ orpEnabled = FALSE
    /\ orpSize = 0
    /\ orpMaxWidth = 0
    /\ orpLayout = <<>>
    /\ orpPc = "idle"
    /\ ovInitial = <<>>
    /\ ovCalls = <<>>
    /\ lbPc = "none"
    /\ lbArg = <<>>
    /\ lbBooks = <<>>
    /\ lbKeys = {}
    /\ lbHistory = <<>>

NextReader ==
    \/ Bootstrap
    \/ LoadComplete
    \/ TimerFire
    \/ PlayPause
    \/ Jump
    \/ SeekSlider
    \/ JumpToChapter
    \/ SetWpm
    \/ TogglePunctuationPauses
    \/ Deactivate
    \/ Unmount

Spec == InitReader /\ [][NextReader]_vars

\* effectiveToken: the token the screen shows, resolveToken(index) or, when
\* that is null, the currentToken state ('...' or the token last synced)
effectiveToken ==
    LET token == resolveToken(book.v, chunkCache, index)
    IN  IF token.ok THEN token.v ELSE currentToken

\* The store holds every chunk as saveTokenChunks wrote it
StoreIntact == kv = SaveAllChunks(EmptyStore, svBookId, svTokens, svChunkSize, 0)

\* Token i lies in the book and the record of its chunk cannot be read
ChunkUnreadable(i) ==
    /\ book.ok
    /\ i >= 0
    /\ i < book.v.tokenCount
    /\ ~loadTokenChunk(kv, book.v.id, i \div book.v.chunkSize).ok

\* C1: at most one playback timer is pending, and none is pending while
\* playback is paused or finished (isPlaying false) or after the screen and
\* with it the playback hook has been torn down.
C1_OneTimer ==
    /\ Cardinality(timers) <= 1
    /\ (~isPlaying \/ ~mounted) => timers = {}

\* Playback has advanced by a timer and the next timer, the only one, is
\* pending for the new index
C1_Witness ==
    /\ mounted
    /\ isPlaying
    /\ index >= 1
    /\ currentToken = svTokens[index + 1]
    /\ timers = {[id |-> timeoutRef, index |-> index]}

\* The step is the return of the last read the suspended call op waited for:
\* the call runs to its end and is no longer suspended
Completes(op) ==
    /\ BagIn(op, inflight)
    /\ inflight' = inflight (-) SetToBag({op})

\* C2: when primeAroundIndex(i) completes and every record of the book is
\* readable, the chunk of token i and, if the book has one, the chunk after
\* it are in the cache (here for the calls made for the current index while
\* no call for another index is suspended).
C2_PrimedResident ==
    [][\A op \in BagToSet(inflight) :
           (/\ StoreIntact
            /\ Completes(op)
            /\ op.tok = index
            /\ op.tok < book.v.tokenCount
            /\ BagToSet(inflight) = {op}) =>
               LET chunkIndex == op.tok \div book.v.chunkSize
               IN  /\ chunkIndex \in CacheKeys(chunkCache')
                   /\ chunkIndex + 1 < book.v.chunkCount =>
                          chunkIndex + 1 \in CacheKeys(chunkCache')]_vars

\* C3: the cache never holds more than 4 chunks in a state between two tasks.
C3_CacheBound == Len(chunkCache) <= CacheLimit

\* The cache is full after an eviction of chunk 0, which bootstrap had
\* loaded, while two calls are suspended on reads
C3_Witness ==
    /\ StoreIntact
    /\ Len(chunkCache) = CacheLimit
    /\ 0 \notin CacheKeys(chunkCache)
    /\ BagCardinality(inflight) = 2

\* C4: for a book with at least one token the index stays within
\* 0 .. tokenCount-1.
C4_IndexInRange ==
    (book.ok /\ book.v.tokenCount >= 1) =>
        /\ 0 <= index
        /\ index <= book.v.tokenCount - 1

\* C5: when play is pressed while paused at or past the last index, the index
\* becomes 0 and the session is playing with a timer pending for token 0
\* (here for a book whose records are all readable).
C5_RestartPlays ==
    [][(PlayPause /\ StoreIntact /\ ~isPlaying /\ index >= book.v.tokenCount - 1) =>
           /\ index' = 0
           /\ isPlaying'
           /\ \E t \in timers' : t.index = 0]_vars

\* C6 as claimed: when the timer advances playback to an index whose chunk
\* cannot be read, the placeholder is shown and playback continues.
C6_PlaybackContinues ==
    [][(TimerFire /\ index' = index + 1 /\ ChunkUnreadable(index')) =>
           /\ effectiveToken' = currentToken'
           /\ isPlaying']_vars

\* C6 as amended: while the index lies in a chunk whose record cannot be read,
\* the session stays open and shows the placeholder (the currentToken state),
\* playback is stopped with no timer pending, and the chunk is not in the
\* cache, so that the next priming of the index reads the record again.
C6_UnreadableStops ==
    (mounted /\ ChunkUnreadable(index)) =>
        /\ effectiveToken = currentToken
        /\ currentToken # <<>>
        /\ ~isPlaying
        /\ timers = {}
        /\ EnsureChunkReads(book.v, chunkCache, index \div book.v.chunkSize)

\* Playback has run into the unreadable chunk and has been stopped there: the
\* token before it is still shown, and the index effect is reading the record
\* of that chunk again
C6_Witness ==
    /\ mounted
    /\ index >= 1
    /\ ChunkUnreadable(index)
    /\ ~isPlaying
    /\ currentToken = svTokens[index]
    /\ \E op \in BagToSet(inflight) : op.tok = index /\ op.phase = 1

\* C8: resolveToken(i) is the token i of the book saved when i is in range
\* and the chunk floor(i/chunkSize) is in the cache, and null otherwise.
C8_ResolveToken ==
    book.ok =>
        \A i \in -1 .. MaxTokens + 1 :
            resolveToken(book.v, chunkCache, i) =
                IF /\ 0 <= i
                   /\ i < Len(svTokens)
                   /\ (i \div svChunkSize) \in CacheKeys(chunkCache)
                THEN Some(svTokens[i + 1])
                ELSE None

\* A book of chunks of two tokens with chunk 1 in the cache and chunk 2 not:
\* token 3 resolves at offset 1 of chunk 1, token 4 does not resolve
C8_Witness ==
    /\ book.ok
    /\ svChunkSize = 2
    /\ 1 \in CacheKeys(chunkCache)
    /\ 2 \notin CacheKeys(chunkCache)
    /\ resolveToken(book.v, chunkCache, 3) = Some(svTokens[4])
    /\ resolveToken(book.v, chunkCache, 4) = None

\* C9: each normalized chapter ends no later than the start of the chapter
\* that follows it, so the normalized intervals never overlap.
C9_NoOverlap ==
    chPc = "done" /\ chTokenCount >= 1 =>
        \A i \in 1 .. Len(chOutput) - 1 :
            chOutput[i].endToken <= chOutput[i + 1].startToken

\* C10: for tokenCount >= 1 the output is strictly ascending by startToken and
\* every entry has 0 <= startToken <= tokenCount-1 and startToken < endToken <=
\* tokenCount; for tokenCount <= 0 or an empty list the output is empty.
C10_SortedBounded ==
    chPc = "done" =>
        /\ chTokenCount >= 1 =>
            /\ \A i \in 1 .. Len(chOutput) - 1 :
                   chOutput[i].startToken < chOutput[i + 1].startToken
            /\ \A i \in 1 .. Len(chOutput) :
                   /\ 0 <= chOutput[i].startToken
                   /\ chOutput[i].startToken <= chTokenCount - 1
                   /\ chOutput[i].startToken < chOutput[i].endToken
                   /\ chOutput[i].endToken <= chTokenCount
        /\ (chTokenCount <= 0 \/ chInput = <<>>) => chOutput = <<>>

\* A normalized list of two chapters that came from out-of-order input with a
\* start above the token range and a declared end of 0
C10_Witness ==
    /\ chPc = "done"
    /\ Len(chOutput) = 2
    /\ Len(chInput) = 2
    /\ chInput[1].startToken = Num(chTokenCount)
    /\ chInput[2].startToken = Num(-1)
    /\ chInput[2].endToken = Num(0)

\* The least k with k * chunkSize >= n, which is ceil(n / chunkSize)
CeilingOf(n, chunkSize) == CHOOSE k \in 0 .. n : k * chunkSize >= n /\ (k = 0 \/ (k - 1) * chunkSize < n)

\* C7: saveTokenChunks returns chunkCount = ceil(n/chunkSize), and the chunks
\* loadTokenChunk returns for 0 .. chunkCount-1, concatenated in order, are
\* the original token sequence.
C7_ChunkRoundTrip ==
    /\ svPc \in {"saved", "loaded"} => svResult = CeilingOf(Len(svTokens), svChunkSize)
    /\ svPc = "loaded" =>
        /\ Len(ldChunks) = svResult
        /\ \A i \in 1 .. Len(ldChunks) : ldChunks[i].ok
        /\ FlattenSeq([i \in 1 .. Len(ldChunks) |-> ldChunks[i].v]) = svTokens

\* A read-back of two chunks, the last one shorter than chunkSize, holding
\* tokens with characters JSON escapes
C7_Witness ==
    /\ svPc = "loaded"
    /\ svResult = 2
    /\ svChunkSize = 3
    /\ Len(svTokens) = 4
    /\ svTokens[1] = <<QUOTE>>
    /\ svTokens[4] = <<"b", BACKSLASH>>

\* C11: normalizeChapters is idempotent: normalizing the list it returned,
\* with the same tokenCount, returns that list again, titles included.
C11_Idempotent ==
    chPc = "done" =>
        normalizeChapters(AsRawChapters(chOutput), chTokenCount) = chOutput

\* A normalized list of two chapters, the first with a default title and a
\* fallback end, that came from unsorted input with a blank title
C11_Witness ==
    /\ chPc = "done"
    /\ chTokenCount = 2
    /\ Len(chInput) = 2
    /\ chInput[1].startToken = Num(2)
    /\ chInput[2].title = " "
    /\ chInput[2].endToken = Num(0)
    /\ Len(chOutput) = 2
    /\ chOutput[1] = [title |-> "Chapter 1", startToken |-> 0, endToken |-> 1]

\* The entries of the input that survive the map and filter, clamped
ClampedInput == MapFilterChapters(chInput, chTokenCount)

\* The first entry of the clamped input, in input order, with start s
FirstWithStart(s) ==
    ClampedInput[CHOOSE i \in 1 .. Len(ClampedInput) :
                     /\ ClampedInput[i].startToken = s
                     /\ \A j \in 1 .. i - 1 : ClampedInput[j].startToken # s]

C12_Locate ==
    \A k \in 1 .. Len(fcResults) :
        LET tokenIndex == k - 2
            atOrBefore == {p \in 0 .. Len(fcChapters) - 1 :
                              fcChapters[p + 1].startToken <= tokenIndex}
        IN  /\ (fcResults[k] = -1) <=> (fcChapters = <<>>)
            /\ fcChapters # <<>> =>
                   fcResults[k] = IF atOrBefore = {} THEN 0
                                  ELSE CHOOSE p \in atOrBefore : \A q \in atOrBefore : q <= p
            /\ k > 1 => fcResults[k - 1] <= fcResults[k]

\* Every token index has been looked up in a list of four chapters, two of
\* them with the same start, none starting at token 0
C12_Witness ==
    /\ Len(fcChapters) = 4
    /\ fcChapters[1].startToken = 1
    /\ fcChapters[2].startToken = 3
    /\ fcChapters[3].startToken = 3
    /\ fcChapters[4].startToken = 5
    /\ fcResults = <<0, 0, 0, 0, 2, 2, 3, 3>>

\* The tokens of the paragraphs, with one paragraph marker between the
\* tokens of consecutive paragraphs
RECURSIVE JoinWithMarkers(_)
JoinWithMarkers(paragraphs) ==
    IF paragraphs = <<>> THEN <<>>
    ELSE tokenizeSegment(Head(paragraphs))
         \o (IF Len(paragraphs) > 1 THEN <<<<NL>>>> ELSE <<>>)
         \o JoinWithMarkers(Tail(paragraphs))

\* C14: tokenizeLargeText(text) resolves to the token sequence that
\* tokenize(text) returns, token for token.
C14_SameTokens ==
    (tkPc = "done" /\ tkSync.ok) => tkTokens = tkSync.v

\* C15: for a text of k >= 1 non-empty paragraphs separated by blank lines,
\* tokenize(text) is the tokens of the paragraphs with exactly one paragraph
\* marker between the tokens of consecutive paragraphs: k - 1 markers, and
\* none for a text without a paragraph break.
C15_MarkersBetween ==
    tkSync.ok =>
        LET paragraphs == SplitParagraphs(normalizeText(tkText))
        IN  (\A i \in 1 .. Len(paragraphs) : tokenizeSegment(paragraphs[i]) # <<>>) =>
                tkSync.v = JoinWithMarkers(paragraphs)

\* The completed call that ended last
LastCall == lbHistory[Len(lbHistory)]

\* C19: when removeBook(b) has completed, b is not in the stored book list,
\* its reading-state record is absent, and loadTokenChunk(b, i) returns
\* null for every chunk index i.
C19_RemovedEverywhere ==
    (lbPc = "idle" /\ lbHistory # <<>> /\ LastCall.op = "remove") =>
        LET b == LastCall.arg
            books == loadBooks(kv)
        IN  /\ \A i \in 1 .. Len(books) : books[i].id # b
            /\ ~GetItem(kv, readingStateKey(b)).ok
            /\ \A i \in 0 .. MaxBookChunks : ~loadTokenChunk(kv, b, i).ok

\* removeBook has completed for a book that was in the list and had a
\* reading state and MaxBookChunks chunks
C19_Witness ==
    /\ lbPc = "idle"
    /\ Len(lbHistory) = 3
    /\ LastCall.op = "remove"
    /\ lbHistory[1] = [op |-> "chunks", arg |-> LastCall.arg]
    /\ lbHistory[2] = [op |-> "state", arg |-> LastCall.arg]
    /\ Cardinality(lbKeys) = MaxBookChunks

\* The metadata of the latest upsert for an id in the history
LatestUpsert(id) ==
    lbHistory[CHOOSE i \in 1 .. Len(lbHistory) :
                  /\ lbHistory[i].arg.id = id
                  /\ \A j \in i + 1 .. Len(lbHistory) : lbHistory[j].arg.id # id].arg

\* C20: after a sequence of upsertBook calls, one after the other, from an
\* empty store, the stored list has exactly one entry per distinct id
\* upserted, that entry is the metadata of the latest upsert for the id,
\* and loadBooks returns the list ordered by updatedAt descending.
C20_OneEntryPerId ==
    (lbPc = "idle" /\ \A i \in 1 .. Len(lbHistory) : lbHistory[i].op = "upsert") =>
        LET stored == GetItem(kv, BOOK_LIST_KEY)
            list == IF stored.ok THEN JsonParseBooks(stored.v) ELSE Some(<<>>)
            books == loadBooks(kv)
        IN  /\ list.ok
            /\ \A i \in 1 .. Len(lbHistory) :
                   Cardinality({k \in 1 .. Len(list.v) :
                                    list.v[k].id = lbHistory[i].arg.id}) = 1
            /\ \A k \in 1 .. Len(list.v) :
                   /\ \E i \in 1 .. Len(lbHistory) : lbHistory[i].arg.id = list.v[k].id
                   /\ list.v[k] = LatestUpsert(list.v[k].id)
            /\ Len(books) = Len(list.v)
            /\ \A k \in 1 .. Len(books) : \E j \in 1 .. Len(list.v) : books[k] = list.v[j]
            /\ \A k \in 1 .. Len(books) - 1 : books[k].updatedAt >= books[k + 1].updatedAt

\* Three upserts have completed: a book, a second book with a later
\* updatedAt, and the first book again with a new title
C20_Witness ==
    /\ lbPc = "idle"
    /\ Len(lbHistory) = 3
    /\ \A i \in 1 .. 3 : lbHistory[i].op = "upsert"
    /\ lbHistory[1].arg = [id |-> <<"k">>, title |-> <<"A">>, updatedAt |-> 1, chunkCount |-> 1]
    /\ lbHistory[2].arg.id = SampleBookId
    /\ lbHistory[2].arg.updatedAt = 2
    /\ lbHistory[3].arg = [id |-> <<"k">>, title |-> <<QUOTE, "}">>, updatedAt |-> 0,
                         chunkCount |-> 1]
    /\ Len(loadBooks(kv)) = 2
    /\ loadBooks(kv)[2] = lbHistory[3].arg

\* C16: in a successful import the progress events arrive in the phase order
\* reading, tokenizing, saving; every value lies in [0, 1]; within a phase
\* the values never decrease; and the last value of a phase is exactly 1
\* before the first event of the next phase.
PhaseRank(phase) ==
    IF phase = "reading" THEN 1 ELSE IF phase = "tokenizing" THEN 2 ELSE 3

C16_ProgressPhases ==
    imPc = "done" =>
        /\ progress # <<>>
        /\ progress[1].phase = "reading"
        /\ progress[Len(progress)].phase = "saving"
        /\ progress[Len(progress)].progress = FracOne
        /\ \A i \in 1 .. Len(progress) :
               /\ FracLeq(Frac(0, 1), progress[i].progress)
               /\ FracLeq(progress[i].progress, FracOne)
        /\ \A i \in 1 .. Len(progress) - 1 :
               IF progress[i].phase = progress[i + 1].phase
               THEN FracLeq(progress[i].progress, progress[i + 1].progress)
               ELSE /\ PhaseRank(progress[i + 1].phase) = PhaseRank(progress[i].phase) + 1
                    /\ FracLeq(FracOne, progress[i].progress)

\* C17: an EPUB import whose container descriptor is missing or names no
\* root file, whose package document is missing or malformed, or whose
\* reading order has no readable section never gets past the package step:
\* once it has ended it has failed with an error message, no key has been
\* written to the store and no ImportedBook is returned.
StructuralFault ==
    /\ imKind = "epub"
    /\ imFile.zip = "ok"
    /\ \/ imFile.container # "ok"
       \/ imFile.opf # "ok"
       \/ \A j \in 1 .. Len(imFile.manifest) : imFile.manifest[j].kind # "doc"

C17_StructuralFailure ==
    StructuralFault =>
        /\ imPc \in {"ready", "epubReading", "epubOpening", "epubContainer",
                      "epubPackage", "failed"}
        /\ imPc = "failed" => imError # ""
        /\ kv = EmptyStore
        /\ imResult = None
        /\ imTokens = <<>> /\ imChapters = <<>>

C17_Witness ==
    /\ StructuralFault
    /\ imFile.container = "ok" /\ imFile.opf = "ok"
    /\ Len(imFile.manifest) = MaxManifest
    /\ imPc = "failed"
    /\ imError = "This EPUB does not contain readable chapter documents."

\* C18: a successful EPUB import of k >= 1 sections with text returns k
\* chapters in section order, chapter j spanning exactly the tokens of
\* section j; one paragraph marker lies between adjacent chapters, in no
\* chapter; the last chapter ends at the last token; tokenCount is the sum
\* of the sections' token counts plus k - 1.
RECURSIVE SumTokenCounts(_)
SumTokenCounts(sections) ==
    IF sections = <<>> THEN 0
    ELSE Len(tokenize(Head(sections).text)) + SumTokenCounts(Tail(sections))

C18_ChaptersSpanSections ==
    (imPc = "done" /\ imKind = "epub") =>
        LET k == Len(imExtracted)
            meta == imResult.v.meta
            chapters == meta.chapters
        IN  /\ k >= 1
            /\ Len(chapters) = k
            /\ chapters[1].startToken = 0
            /\ chapters[k].endToken = Len(imTokens)
            /\ meta.tokenCount = Len(imTokens)
            /\ meta.tokenCount = SumTokenCounts(imExtracted) + k - 1
            /\ \A j \in 1 .. k :
                   /\ chapters[j].title = imExtracted[j].title
                   /\ SubSeq(imTokens, chapters[j].startToken + 1, chapters[j].endToken)
                          = tokenize(imExtracted[j].text)
            /\ \A j \in 1 .. k - 1 :
                   /\ chapters[j + 1].startToken = chapters[j].endToken + 1
                   /\ imTokens[chapters[j].endToken + 1] = <<NL>>

C18_Witness ==
    /\ imPc = "done" /\ imKind = "epub"
    /\ Len(imExtracted) = MaxManifest
    /\ Len(imResult.v.meta.chapters) = MaxManifest
    /\ \E j \in 1 .. MaxManifest : Len(tokenize(imExtracted[j].text)) >= 2

\* C21: when the app becomes inactive, the screen loses focus or is
\* unmounted with a book loaded, no timer stays pending and the reading
\* state then in the store carries the index of that moment; after the
\* unmount the stored index stays the index the session ended with.
StoredIndex == loadReadingState(kv, svBookId)

MaxDelayTail == 2

PauseClosers == {")", "\"", "'", "]", "}", "rdquo", "raquo"}
HardPauseMarks == {".", "!", "?"}
SoftPauseMarks == {";", ",", ":"}

\* /[marks]+[closers]*$/u.test(token)
PauseTokenTest(token, marks) ==
    \E j \in 1 .. Len(token) :
        /\ token[j] \in marks
        /\ \A k \in (j + 1) .. Len(token) : token[k] \in PauseClosers

\* \p{L} and \p{N} on the characters of the model
IsLetterOrNumber(c) == c \in {Letters[i] : i \in 1 .. Len(Letters)} \cup DigitSet

\* token.replace(/[^\p{L}\p{N}]+/gu, '').length
CoreWordLength(token) ==
    Cardinality({i \in 1 .. Len(token) : IsLetterOrNumber(token[i])})

computeDelayMsLongAtTwelve(token, wpmArg, punctuationPauses) ==
    LET baseDen == Max(1, wpmArg)
        pause == IF token = <<NL>> THEN 10
                 ELSE IF PauseTokenTest(token, HardPauseMarks) THEN 7
                 ELSE IF PauseTokenTest(token, SoftPauseMarks) THEN 3
                 ELSE 0
        long == IF CoreWordLength(token) >= 12 THEN 1 ELSE 0
    IN  IF ~punctuationPauses THEN Frac(60000, baseDen)
        ELSE Frac(6000 * (10 + pause + long), baseDen)

computeDelayMs(token, wpmArg, punctuationPauses) ==
    LET baseDen == Max(1, wpmArg)
        pause == IF token = <<NL>> THEN 10
                 ELSE IF PauseTokenTest(token, HardPauseMarks) THEN 7
                 ELSE IF PauseTokenTest(token, SoftPauseMarks) THEN 3
                 ELSE 0
        long == IF CoreWordLength(token) > 12 THEN 1 ELSE 0
    IN  IF ~punctuationPauses THEN Frac(60000, baseDen)
        ELSE Frac(6000 * (10 + pause + long), baseDen)

DelayCores == {[i \in 1 .. n |-> "a"] : n \in {0, 1, 12, 13}}
DelayTailChars == {"a", ".", "!", ",", ":", ")", "raquo", "-"}
DelayTokens ==
    {core \o tail : core \in DelayCores, tail \in SeqsUpTo(DelayTailChars, MaxDelayTail)}
        \cup {<<NL>>}
DelayWpmValues == {0, 300, 450}

InitDelay ==
    /\ dlToken \in DelayTokens
    /\ dlWpm \in DelayWpmValues
    /\ dlPauses \in BOOLEAN
    /\ dlDelay = [num |-> 0, den |-> 1]
    /\ dlPc = "call"
    /\ chInput = <<>>
    /\ chTokenCount = 0
    /\ chOutput = <<>>
    /\ chPc = "idle"
    /\ kv = EmptyStore
    /\ svBookId = <<>>
    /\ svTokens = <<>>
    /\ svChunkSize = 1
    /\ svChunkIndex = 0
    /\ svResult = -1
    /\ svPc = "idle"
    /\ ldIndex = 0
    /\ ldChunks = <<>>
    /\ book = None
    /\ loading = TRUE
    /\ mounted = FALSE
    /\ index = 0
    /\ isPlaying = FALSE
    /\ wpm = 0
    /\ currentToken = <<>>
    /\ chunkCache = <<>>
    /\ timeoutRef = 0
    /\ timers = {}
    /\ inflight = EmptyBag
    /\ fcChapters = <<>>
    /\ fcIndex = 0
    /\ fcResults = <<>>
    /\ tkText = <<>>
    /\ tkPc = "idle"
    /\ tkParagraphs = <<>>
    /\ tkI = 0
    /\ tkTokens = <<>>
    /\ tkSync = <<>>
    /\ progress = <<>>
    /\ imKind = "none"
    /\ imFile = <<>>
    /\ imPc = "idle"
    /\ imSections = <<>>
    /\ imExtracted = <<>>
    /\ imI = 0
    /\ imTokens = <<>>
    /\ imChapters = <<>>
    /\ imTextLength = 0
    /\ imResult = None
    /\ imError = ""
    /\ orpToken = <<>>
    /\ orpEnabled = FALSE
    /\ orpSize = 0
    /\ orpMaxWidth = 0
    /\ orpLayout = <<>>
    /\ orpPc = "idle"
    /\ ovInitial = <<>>
    /\ ovCalls = <<>>
    /\ lbPc = "none"
    /\ lbArg = <<>>
    /\ lbBooks = <<>>
    /\ lbKeys = {}
    /\ lbHistory = <<>>

ComputeDelay ==
    /\ dlPc = "call"
    /\ dlDelay' = computeDelayMs(dlToken, dlWpm, dlPauses)
    /\ dlPc' = "done"
    /\ UNCHANGED <<dlToken, dlWpm, dlPauses>>
    /\ UNCHANGED <<chapterVars, storeVars, readerVars, findVars, textVars, libraryVars,
                   importVars, orpVars, overlapVars>>

NextDelay == ComputeDelay

SpecDelay == InitDelay /\ [][NextDelay]_vars

\* C22: the delay returned is 60000 / max(1, wpm) times m, with m = 1 when
\* pauses are disabled and otherwise 1 + p + l: p is 1.0 for the paragraph
\* marker, else 0.7 for a token that ends, closing brackets and quotes
\* aside, in a sentence-terminal mark, else 0.3 for one that so ends in a
\* soft-pause mark, else 0; l is 0.1 for a core of more than 12 letters and
\* digits, else 0.  At most one of the three pause bonuses is counted.
RECURSIVE StripClosers(_)
StripClosers(token) ==
    IF token # <<>> /\ token[Len(token)] \in PauseClosers
    THEN StripClosers(SubSeq(token, 1, Len(token) - 1))
    ELSE token

EndsIn(token, marks) ==
    LET t == StripClosers(token) IN t # <<>> /\ t[Len(t)] \in marks

PauseBonuses(token) ==
    {b \in {"paragraph", "hard", "soft"} :
        \/ b = "paragraph" /\ token = <<NL>>
        \/ b = "hard" /\ token # <<NL>> /\ EndsIn(token, {".", "!", "?"})
        \/ b = "soft" /\ token # <<NL>> /\ ~EndsIn(token, {".", "!", "?"})
               /\ EndsIn(token, {";", ",", ":"})}

BonusTenths(b) == IF b = "paragraph" THEN 10 ELSE IF b = "hard" THEN 7 ELSE 3

C22_DelayFormula ==
    dlPc = "done" =>
        LET bonuses == PauseBonuses(dlToken)
            p == IF bonuses = {} THEN 0 ELSE BonusTenths(CHOOSE b \in bonuses : TRUE)
            l == IF CoreWordLength(dlToken) > 12 THEN 1 ELSE 0
            m == IF dlPauses THEN 10 + p + l ELSE 10
        IN  /\ Cardinality(bonuses) <= 1
            /\ dlDelay.num * Max(1, dlWpm) = 6000 * m * dlDelay.den

C22_Witness ==
    /\ dlPc = "done"
    /\ dlPauses
    /\ dlWpm = 300
    /\ CoreWordLength(dlToken) = 13
    /\ dlToken[Len(dlToken)] = "raquo"
    /\ dlToken[Len(dlToken) - 1] = "!"
    /\ dlDelay.num = 360 * dlDelay.den

(***************************************************************************)
(* The ORP layout: OrpWordBase (the component kept in src/jest.config.js). *)
(*                                                                         *)
(* Sizes and widths are whole numbers of pixels; the glyph width factor    *)
(* 0.62 is the exact fraction 62/100, so a limit maxWidth / (0.62 * n) is  *)
(* the fraction 100 * maxWidth / (62 * n).                                 *)
(***************************************************************************)
OrpJoiners == {"-", "'", "rsquo"}

\* isWord: /[\p{L}\p{N}]/u.test(token)
isWord(token) == \E i \in 1 .. Len(token) : IsLetterOrNumber(token[i])

\* ([\p{L}\p{N}]+(?:[\-’'][\p{L}\p{N}]+)*) matches the whole of w
IsOrpCore(w) ==
    /\ w # <<>>
    /\ IsLetterOrNumber(w[1])
    /\ IsLetterOrNumber(w[Len(w)])
    /\ \A k \in 2 .. (Len(w) - 1) :
           ~IsLetterOrNumber(w[k]) =>
               /\ w[k] \in OrpJoiners
               /\ IsLetterOrNumber(w[k - 1])
               /\ IsLetterOrNumber(w[k + 1])

\* The match of the anchored pattern leading, core, trailing; None for null
splitWordToken(token) ==
    LET cuts == {c \in (1 .. Len(token)) \X (1 .. Len(token)) :
                    /\ c[1] <= c[2]
                    /\ \A k \in 1 .. (c[1] - 1) : ~IsLetterOrNumber(token[k])
                    /\ \A k \in (c[2] + 1) .. Len(token) : ~IsLetterOrNumber(token[k])
                    /\ IsOrpCore(SubSeq(token, c[1], c[2]))}
    IN  IF cuts = {} THEN None
        ELSE LET c == CHOOSE c \in cuts : TRUE
             IN  Some([leading |-> SubSeq(token, 1, c[1] - 1),
                       core |-> SubSeq(token, c[1], c[2]),
                       trailing |-> SubSeq(token, c[2] + 1, Len(token))])

getOrpIndex(word) ==
    IF Len(word) <= 2 THEN 0
    ELSE IF Len(word) <= 5 THEN 1
    ELSE IF Len(word) <= 9 THEN 2
    ELSE IF Len(word) <= 13 THEN 3
    ELSE 4

MinFrac(a, b) == IF FracLeq(a, b) THEN a ELSE b
FloorFrac(a) == a.num \div a.den

getDeterministicOrpSizeLeftOnly(baseSize, maxWidth, leftLength, rightLength) ==
    IF maxWidth <= 0 THEN baseSize
    ELSE LET leftLimit == Frac(100 * maxWidth, 62 * (2 * leftLength + 1))
             fitted == FloorFrac(MinFrac(Frac(baseSize, 1), leftLimit))
         IN  Max(24, Min(baseSize, fitted))

getDeterministicOrpSize(baseSize, maxWidth, leftLength, rightLength) ==
    IF maxWidth <= 0 THEN baseSize
    ELSE LET leftLimit == Frac(100 * maxWidth, 62 * (2 * leftLength + 1))
             rightLimit == Frac(100 * maxWidth, 62 * (2 * rightLength + 1))
             fitted == FloorFrac(MinFrac(Frac(baseSize, 1), MinFrac(leftLimit, rightLimit)))
         IN  Max(24, Min(baseSize, fitted))

\* What OrpWordBase renders: the token verbatim at the baseline size, or the
\* three texts around the focal character at the effective size
PlainLayout(token, size) ==
    [kind |-> "plain", left |-> <<>>, orp |-> token, right |-> <<>>, fontSize |-> size]

OrpWordBase(token, enabled, size, maxWidth) ==
    IF ~enabled \/ ~isWord(token) THEN PlainLayout(token, size)
    ELSE LET parts == splitWordToken(token)
         IN  IF ~parts.ok THEN PlainLayout(token, size)
             ELSE LET core == parts.v.core
                      idx == Min(getOrpIndex(core), Len(core) - 1)
                      leftText == parts.v.leading \o SubSeq(core, 1, idx)
                      rightText == SubSeq(core, idx + 2, Len(core)) \o parts.v.trailing
                  IN  [kind |-> "orp", left |-> leftText, orp |-> <<core[idx + 1]>>,
                       right |-> rightText,
                       fontSize |-> getDeterministicOrpSize(size, maxWidth,
                                                            Len(leftText), Len(rightText))]

MaxOrpTrailing == 2
OrpCoreLengths == {1, 2, 3, 5, 6, 9, 10, 13, 14, 18}
OrpCores ==
    {[i \in 1 .. n |-> "a"] : n \in OrpCoreLengths}
        \cup {<<"a", "-", "b">>, <<"a", "-", "-", "b">>, <<"a", ".", "b">>}
OrpTokens ==
    {leading \o core \o trailing :
        leading \in {<<>>, <<"(">>}, core \in OrpCores,
        trailing \in SeqsUpTo({".", ")"}, MaxOrpTrailing)}
        \cup {<<NL>>, <<"-">>}
OrpSizes == {20, 50}
OrpWidths == {0, 150, 300, 390}

InitOrp ==
    /\ orpToken \in OrpTokens
    /\ orpEnabled \in BOOLEAN
    /\ orpSize \in OrpSizes
    /\ orpMaxWidth \in OrpWidths
    /\ orpLayout = <<>>
    /\ orpPc = "props"
    /\ chInput = <<>>
    /\ chTokenCount = 0
    /\ chOutput = <<>>
    /\ chPc = "idle"
    /\ kv = EmptyStore
    /\ svBookId = <<>>
    /\ svTokens = <<>>
    /\ svChunkSize = 1
    /\ svChunkIndex = 0
    /\ svResult = -1
    /\ svPc = "idle"
    /\ ldIndex = 0
    /\ ldChunks = <<>>
    /\ book = None
    /\ loading = TRUE
    /\ mounted = FALSE
    /\ index = 0
    /\ isPlaying = FALSE
    /\ wpm = 0
    /\ currentToken = <<>>
    /\ chunkCache = <<>>
    /\ timeoutRef = 0
    /\ timers = {}
    /\ inflight = EmptyBag
    /\ fcChapters = <<>>
    /\ fcIndex = 0
    /\ fcResults = <<>>
    /\ tkText = <<>>
    /\ tkPc = "idle"
    /\ tkParagraphs = <<>>
    /\ tkI = 0
    /\ tkTokens = <<>>
    /\ tkSync = <<>>
    /\ progress = <<>>
    /\ imKind = "none"
    /\ imFile = <<>>
    /\ imPc = "idle"
    /\ imSections = <<>>
    /\ imExtracted = <<>>
    /\ imI = 0
    /\ imTokens = <<>>
    /\ imChapters = <<>>
    /\ imTextLength = 0
    /\ imResult = None
    /\ imError = ""
    /\ dlToken = <<>>
    /\ dlWpm = 0
    /\ dlPauses = FALSE
    /\ dlDelay = [num |-> 0, den |-> 1]
    /\ dlPc = "idle"
    /\ ovInitial = <<>>
    /\ ovCalls = <<>>
    /\ lbPc = "none"
    /\ lbArg = <<>>
    /\ lbBooks = <<>>
    /\ lbKeys = {}
    /\ lbHistory = <<>>

OrpRender ==
    /\ orpPc = "props"
    /\ orpLayout' = OrpWordBase(orpToken, orpEnabled, orpSize, orpMaxWidth)
    /\ orpPc' = "rendered"
    /\ UNCHANGED <<orpToken, orpEnabled, orpSize, orpMaxWidth>>
    /\ UNCHANGED <<chapterVars, storeVars, readerVars, findVars, textVars, libraryVars,
                   importVars, delayVars, overlapVars>>

NextOrp == OrpRender

SpecOrp == InitOrp /\ [][NextOrp]_vars

\* A font size f keeps both mirrored sides within the width
OrpFits(f) ==
    /\ 62 * f * (2 * Len(orpLayout.left) + 1) <= 100 * orpMaxWidth
    /\ 62 * f * (2 * Len(orpLayout.right) + 1) <= 100 * orpMaxWidth

OrpLaidOut == orpPc = "rendered" /\ orpLayout.kind = "orp" /\ orpMaxWidth > 0

\* C23 as stated: for every word token, baseline size and positive maximum
\* width the chosen font size is at most the baseline and both sides fit the
\* width.
C23_SizeFits ==
    OrpLaidOut => orpLayout.fontSize <= orpSize /\ OrpFits(orpLayout.fontSize)

\* C23 amended: the chosen font size is the largest whole size up to the
\* baseline at which both sides fit, but never less than 24; it fits and is
\* at most the baseline whenever that largest size is 24 or more.
C23_SizeFitsOrMinimum ==
    OrpLaidOut =>
        LET fitting == {f \in 0 .. orpSize : OrpFits(f)}
            best == CHOOSE f \in fitting : \A g \in fitting : g <= f
        IN  /\ orpLayout.fontSize = Max(24, best)
            /\ best >= 24 => orpLayout.fontSize <= orpSize /\ OrpFits(orpLayout.fontSize)

C23_Witness ==
    /\ OrpLaidOut
    /\ orpLayout.fontSize > 24
    /\ orpLayout.fontSize < orpSize
    /\ Len(orpLayout.right) > 2 * Len(orpLayout.left) + 1
    /\ OrpFits(orpLayout.fontSize)

\* C24: while the screen is mounted, a step that leaves playback on leaves
\* exactly one timer, set for the index shown, whose firing asks for that
\* index plus one; a step that ran the scheduler on a token that does not
\* resolve leaves playback off and no timer; a timer is only ever set for a
\* token that resolves; and the firing that would advance past the last
\* token leaves the index at tokenCount - 1 with playback off.
SchedulerRan ==
    index' # index \/ isPlaying' # isPlaying \/ timers' # timers \/ wpm' # wpm

C24_SchedulerStep ==
    [][(mounted' /\ book.ok /\ book'.ok) =>
           /\ isPlaying' =>
                  /\ Cardinality(timers') = 1
                  /\ \A t \in timers' : t.index = index' /\ t.id = timeoutRef'
           /\ (SchedulerRan /\ ~Truthy(resolveToken(book.v, chunkCache', index'))) =>
                  ~isPlaying' /\ timers' = {}
           /\ (timers' \ timers # {}) => Truthy(resolveToken(book.v, chunkCache', index'))
           /\ TimerFire =>
                  \A t \in timers :
                      IF t.index + 1 >= book.v.tokenCount
                      THEN /\ index' = book.v.tokenCount - 1
                           /\ ~isPlaying'
                           /\ timers' = {}
                      ELSE index' = t.index + 1]_vars

C24_Witness ==
    /\ mounted
    /\ book.ok
    /\ isPlaying
    /\ book.v.tokenCount = MaxTokens
    /\ index = MaxTokens - 2
    /\ \E t \in timers : timers = {t} /\ t.index = index /\ t.id = timeoutRef

\* C25: the cache changes only when a read completes with a chunk that is
\* not held: the chunk is added at the end, and when that would make more
\* than four entries exactly one is dropped, the one held longest.  A read
\* that completes for a chunk already held, a read that fails, and every
\* lookup leave the entries and their order as they were.
C25_EvictOldestInserted ==
    [][(book.ok /\ book' = book) =>
           \/ chunkCache' = chunkCache
           \/ /\ LoadComplete
              /\ \E op \in BagToSet(inflight) :
                     LET k == AwaitedChunk(book.v, op)
                         loaded == loadTokenChunk(kv, book.v.id, k)
                         entry == [k |-> k, v |-> loaded.v]
                     IN  /\ loaded.ok
                         /\ k \notin CacheKeys(chunkCache)
                         /\ chunkCache' =
                                IF Len(chunkCache) < CacheLimit
                                THEN Append(chunkCache, entry)
                                ELSE Append(Tail(chunkCache), entry)]_vars

C25_Witness ==
    /\ book.ok
    /\ Len(chunkCache) = CacheLimit
    /\ [i \in 1 .. CacheLimit |-> chunkCache[i].k] = <<2, 3, 4, 0>>

\* C26: the tokens tokenizeLargeText resolves to neither start nor end with
\* a paragraph marker, and no two markers are adjacent.
C26_MarkersSeparated ==
    tkPc = "done" =>
        /\ tkTokens # <<>> => tkTokens[1] # <<NL>> /\ tkTokens[Len(tkTokens)] # <<NL>>
        /\ \A j \in 1 .. (Len(tkTokens) - 1) :
               ~(tkTokens[j] = <<NL>> /\ tkTokens[j + 1] = <<NL>>)

(***************************************************************************)
(* Unattended playback: a session on a book whose records are all          *)
(* readable, opened at any stored index.  The reader presses play while    *)
(* the session is paused and touches nothing while it plays.  Timers fire  *)
(* and storage reads complete eventually, hence the weak fairness of       *)
(* TimerFire, LoadComplete and Bootstrap; nothing obliges the reader to    *)
(* press play.                                                             *)
(***************************************************************************)
InitPlayback ==
    /\ svBookId = ReaderBookId
    /\ svTokens \in {BookTokens(n) : n \in ReaderTokenCounts}
    /\ svChunkSize \in ReaderChunkSizes
    /\ svChunkIndex = MathCeilDiv(Len(svTokens), svChunkSize)
    /\ svResult = MathCeilDiv(Len(svTokens), svChunkSize)
    /\ svPc = "saved"
    /\ ldIndex = 0
    /\ ldChunks = <<>>
    /\ LET saved == SaveAllChunks(EmptyStore, svBookId, svTokens, svChunkSize, 0)
       IN  kv \in {saved} \cup {saveReadingState(saved, svBookId, [index |-> i]) :
                                    i \in 0 .. (Len(svTokens) - 1)}
    /\ book = None
    /\ loading = TRUE
    /\ mounted = TRUE
    /\ index = 0
    /\ isPlaying = FALSE
    /\ wpm \in WpmValues
    /\ currentToken = <<".", ".", ".">>
    /\ chunkCache = <<>>
    /\ timeoutRef = 0
    /\ timers = {}
    /\ inflight = EmptyBag
    /\ chInput = <<>>
    /\ chTokenCount = 0
    /\ chOutput = <<>>
    /\ chPc = "idle"
    /\ fcChapters = <<>>
    /\ fcIndex = 0
    /\ fcResults = <<>>
    /\ tkText = <<>>
    /\ tkPc = "idle"
    /\ tkParagraphs = <<>>
    /\ tkI = 0
    /\ tkTokens = <<>>
    /\ tkSync = <<>>
    /\ progress = <<>>
    /\ imKind = "none"
    /\ imFile = <<>>
    /\ imPc = "idle"
    /\ imSections = <<>>
    /\ imExtracted = <<>>
    /\ imI = 0
    /\ imTokens = <<>>
    /\ imChapters = <<>>
    /\ imTextLength = 0
    /\ imResult = None
    /\ imError = ""
    /\ dlToken = <<>>
    /\ dlWpm = 0
    /\ dlPauses = FALSE
    /\ dlDelay = [num |-> 0, den |-> 1]
    /\ dlPc = "idle"
    /\ orpToken = <<>>
    /\ orpEnabled = FALSE
    /\ orpSize = 0
    /\ orpMaxWidth = 0
    /\ orpLayout = <<>>
    /\ orpPc = "idle"
    /\ ovInitial = <<>>
    /\ ovCalls = <<>>
    /\ lbPc = "none"
    /\ lbArg = <<>>
    /\ lbBooks = <<>>
    /\ lbKeys = {}
    /\ lbHistory = <<>>

\* handlePlayPause pressed while the session is paused
StartPlaying ==
    /\ ~isPlaying
    /\ PlayPause

NextPlayback ==
    \/ Bootstrap
    \/ LoadComplete
    \/ TimerFire
    \/ StartPlaying

SpecPlayback ==
    /\ InitPlayback
    /\ [][NextPlayback]_vars
    /\ WF_vars(Bootstrap)
    /\ WF_vars(LoadComplete)
    /\ WF_vars(TimerFire)

\* C27: with every record readable and no input while playing, playback
\* stops only at the last token, and a session that plays eventually stands
\* stopped at the last token.
C27_PlaybackCompletes ==
    /\ [][(isPlaying /\ ~isPlaying') => index' = book.v.tokenCount - 1]_vars
    /\ (isPlaying ~> (book.ok /\ ~isPlaying /\ index = book.v.tokenCount - 1))

\* C30: a step of removeBook(b) leaves, for every other id c, the entries
\* of c in the stored book list, the reading state of c and every token
\* chunk of c as they were.
EntriesOf(store, c) == SelectSeq(loadBooks(store), LAMBDA item : item.id = c)

C30_RemoveFrame ==
    [][(RemoveSaveBooks \/ RemoveReadingState \/ RemoveListKeys \/ RemoveChunks) =>
           \A c \in LibraryBookIds \ {lbArg} :
               /\ EntriesOf(kv', c) = EntriesOf(kv, c)
               /\ GetItem(kv', readingStateKey(c)) = GetItem(kv, readingStateKey(c))
               /\ \A n \in 0 .. (MaxBookChunks - 1) :
                      GetItem(kv', tokenChunkKey(c, n)) = GetItem(kv, tokenChunkKey(c, n))]_vars

(***************************************************************************)
(* Overlapping calls of upsertBook and removeBook                          *)
(*                                                                         *)
(* Nothing in src/src/storage/index.ts keeps a call from being made while  *)
(* another is suspended: persistNow of the reading session does not await  *)
(* its upsertBook (src/unnamed/part_009, void persistNow()).  AsyncStorage *)
(* serves its requests in the order they are made, so a getItem returns    *)
(* the record as it is when the request is made, and a record written is   *)
(* in the store from the setItem request on.  A call is suspended between  *)
(* its requests; the continuations of different calls interleave freely.   *)
(***************************************************************************)
MaxOverlap == 2

OverlapInitialLists ==
    {<<>>,
     <<[id |-> <<"k">>, title |-> <<"A">>, updatedAt |-> 1, chunkCount |-> 1]>>,
     <<[id |-> SampleBookId, title |-> <<"A">>, updatedAt |-> 1, chunkCount |-> 1],
       [id |-> <<"k">>, title |-> <<"A">>, updatedAt |-> 0, chunkCount |-> 1]>>}

InitOverlap ==
    /\ ovInitial \in OverlapInitialLists
    /\ kv = saveBooks(EmptyStore, ovInitial)
    /\ ovCalls = <<>>
    /\ chInput = <<>>
    /\ chTokenCount = 0
    /\ chOutput = <<>>
    /\ chPc = "idle"
    /\ svBookId = <<>>
    /\ svTokens = <<>>
    /\ svChunkSize = 1
    /\ svChunkIndex = 0
    /\ svResult = -1
    /\ svPc = "idle"
    /\ ldIndex = 0
    /\ ldChunks = <<>>
    /\ book = None
    /\ loading = TRUE
    /\ mounted = FALSE
    /\ index = 0
    /\ isPlaying = FALSE
    /\ wpm = 0
    /\ currentToken = <<>>
    /\ chunkCache = <<>>
    /\ timeoutRef = 0
    /\ timers = {}
    /\ inflight = EmptyBag
    /\ fcChapters = <<>>
    /\ fcIndex = 0
    /\ fcResults = <<>>
    /\ tkText = <<>>
    /\ tkPc = "idle"
    /\ tkParagraphs = <<>>
    /\ tkI = 0
    /\ tkTokens = <<>>
    /\ tkSync = <<>>
    /\ progress = <<>>
    /\ imKind = "none"
    /\ imFile = <<>>
    /\ imPc = "idle"
    /\ imSections = <<>>
    /\ imExtracted = <<>>
    /\ imI = 0
    /\ imTokens = <<>>
    /\ imChapters = <<>>
    /\ imTextLength = 0
    /\ imResult = None
    /\ imError = ""
    /\ dlToken = <<>>
    /\ dlWpm = 0
    /\ dlPauses = FALSE
    /\ dlDelay = [num |-> 0, den |-> 1]
    /\ dlPc = "idle"
    /\ orpToken = <<>>
    /\ orpEnabled = FALSE
    /\ orpSize = 0
    /\ orpMaxWidth = 0
    /\ orpLayout = <<>>
    /\ orpPc = "idle"
    /\ lbPc = "none"
    /\ lbArg = <<>>
    /\ lbBooks = <<>>
    /\ lbKeys = {}
    /\ lbHistory = <<>>

OverlapRest == <<chapterVars, saveVars, readerVars, findVars, textVars, libraryVars,
                 importVars, delayVars, orpVars>>

\* upsertBook(meta) is called: loadBooks requests the record of the list
OverlapUpsertCall ==
    /\ Len(ovCalls) < MaxOverlap
    /\ \E meta \in LibraryBooks :
           ovCalls' = Append(ovCalls, [op |-> "upsert", arg |-> meta, pc |-> "loading",
                                       books |-> loadBooks(kv), chunkKeys |-> {}])
    /\ UNCHANGED <<kv, ovInitial>>
    /\ UNCHANGED OverlapRest

\* removeBook(bookId) is called: loadBooks requests the record of the list
OverlapRemoveCall ==
    /\ Len(ovCalls) < MaxOverlap
    /\ \E bookId \in LibraryBookIds :
           ovCalls' = Append(ovCalls, [op |-> "remove", arg |-> bookId, pc |-> "loading",
                                       books |-> loadBooks(kv), chunkKeys |-> {}])
    /\ UNCHANGED <<kv, ovInitial>>
    /\ UNCHANGED OverlapRest

\* upsertBook resumes with the list read: it changes and sorts the list and
\* saveBooks requests the write
OverlapUpsertSave ==
    /\ \E i \in 1 .. Len(ovCalls) :
           /\ ovCalls[i].op = "upsert"
           /\ ovCalls[i].pc = "loading"
           /\ LET books == UpsertInto(ovCalls[i].books, ovCalls[i].arg)
              IN  /\ kv' = saveBooks(kv, books)
                  /\ ovCalls' = [ovCalls EXCEPT ![i].pc = "saving", ![i].books = books]
    /\ UNCHANGED ovInitial
    /\ UNCHANGED OverlapRest

\* setItem completes: upsertBook returns
OverlapUpsertReturn ==
    /\ \E i \in 1 .. Len(ovCalls) :
           /\ ovCalls[i].op = "upsert"
           /\ ovCalls[i].pc = "saving"
           /\ ovCalls' = [ovCalls EXCEPT ![i].pc = "done"]
    /\ UNCHANGED <<kv, ovInitial>>
    /\ UNCHANGED OverlapRest

\* removeBook resumes with the list read: saveBooks requests the write of
\* the list without the book
OverlapRemoveSaveBooks ==
    /\ \E i \in 1 .. Len(ovCalls) :
           /\ ovCalls[i].op = "remove"
           /\ ovCalls[i].pc = "loading"
           /\ kv' = saveBooks(kv, FilterOutBook(ovCalls[i].books, ovCalls[i].arg))
           /\ ovCalls' = [ovCalls EXCEPT ![i].pc = "saving"]
    /\ UNCHANGED ovInitial
    /\ UNCHANGED OverlapRest

\* setItem completes: removeItem(readingStateKey(bookId)) is requested
OverlapRemoveReadingState ==
    /\ \E i \in 1 .. Len(ovCalls) :
           /\ ovCalls[i].op = "remove"
           /\ ovCalls[i].pc = "saving"
           /\ kv' = MultiRemove(kv, {readingStateKey(ovCalls[i].arg)})
           /\ ovCalls' = [ovCalls EXCEPT ![i].pc = "state"]
    /\ UNCHANGED ovInitial
    /\ UNCHANGED OverlapRest

\* removeItem completes: getAllKeys is requested, and its keys are filtered
OverlapRemoveListKeys ==
    /\ \E i \in 1 .. Len(ovCalls) :
           /\ ovCalls[i].op = "remove"
           /\ ovCalls[i].pc = "state"
           /\ ovCalls' = [ovCalls EXCEPT
                             ![i].pc = "keys",
                             ![i].chunkKeys = {key \in DOMAIN kv :
                                                  IsChunkKeyOf(key, ovCalls[i].arg)}]
    /\ UNCHANGED <<kv, ovInitial>>
    /\ UNCHANGED OverlapRest

\* multiRemove(chunkKeys) if there is a key, and removeBook returns
OverlapRemoveChunks ==
    /\ \E i \in 1 .. Len(ovCalls) :
           /\ ovCalls[i].op = "remove"
           /\ ovCalls[i].pc = "keys"
           /\ kv' = IF ovCalls[i].chunkKeys # {}
                    THEN MultiRemove(kv, ovCalls[i].chunkKeys) ELSE kv
           /\ ovCalls' = [ovCalls EXCEPT ![i].pc = "done"]
    /\ UNCHANGED ovInitial
    /\ UNCHANGED OverlapRest

NextOverlap ==
    \/ OverlapUpsertCall \/ OverlapUpsertSave \/ OverlapUpsertReturn
    \/ OverlapRemoveCall \/ OverlapRemoveSaveBooks \/ OverlapRemoveReadingState
    \/ OverlapRemoveListKeys \/ OverlapRemoveChunks

SpecOverlap == InitOverlap /\ [][NextOverlap]_vars

\* The list the calls of `order` leave when each runs alone, one after the
\* other, on the list `books`
RECURSIVE SerialList(_, _)
SerialList(books, order) ==
    IF order = <<>> THEN books
    ELSE LET call == ovCalls[Head(order)]
         IN  SerialList(IF call.op = "upsert" THEN UpsertInto(books, call.arg)
                        ELSE FilterOutBook(books, call.arg),
                        Tail(order))

CallOrders ==
    {order \in [1 .. Len(ovCalls) -> 1 .. Len(ovCalls)] :
        \A i, j \in 1 .. Len(ovCalls) : i # j => order[i] # order[j]}

\* C29: when all the calls made have returned, the stored book list is the
\* list some serial order of those calls leaves.
C29_Serializable ==
    (ovCalls # <<>> /\ \A i \in 1 .. Len(ovCalls) : ovCalls[i].pc = "done") =>
        \E order \in CallOrders : loadBooks(kv) = SerialList(ovInitial, order)

(***************************************************************************)
(* The library screen: handleImport and handleDelete (src/unnamed/part_008)*)
(* on the store, one at a time, each of which may be cut short.            *)
(*                                                                         *)
(* An import is followed from the saveTokenChunks call of importTxtFromUri *)
(* (the EPUB import and ingestSample make the same calls in the same       *)
(* order): saveTokenChunks, upsertBook(meta), saveReadingState.  A         *)
(* deletion is removeBook.  The ids are of the form makeId gives: two      *)
(* parts joined by one "_", so no id continues another id and "_".  An id  *)
(* may come up twice.  A crash of the application, and a storage request   *)
(* that is rejected, leave the store as the requests before left it and    *)
(* end the operation: CatalogAbandon.                                      *)
(***************************************************************************)
MaxCatalogOps == 3
MaxCatalogChunks == 2

CatalogIds == {<<"t", "_", "a">>, <<"t", "_", "b">>}

InitCatalog ==
    /\ kv = EmptyStore
    /\ svBookId = <<>>
    /\ svTokens = <<>>
    /\ svChunkSize = 1
    /\ svChunkIndex = 0
    /\ svResult = -1
    /\ svPc = "idle"
    /\ ldIndex = 0
    /\ ldChunks = <<>>
    /\ lbPc = "idle"
    /\ lbArg = <<>>
    /\ lbBooks = <<>>
    /\ lbKeys = {}
    /\ lbHistory = <<>>
    /\ chInput = <<>>
    /\ chTokenCount = 0
    /\ chOutput = <<>>
    /\ chPc = "idle"
    /\ book = None
    /\ loading = TRUE
    /\ mounted = FALSE
    /\ index = 0
    /\ isPlaying = FALSE
    /\ wpm = 0
    /\ currentToken = <<>>
    /\ chunkCache = <<>>
    /\ timeoutRef = 0
    /\ timers = {}
    /\ inflight = EmptyBag
    /\ fcChapters = <<>>
    /\ fcIndex = 0
    /\ fcResults = <<>>
    /\ tkText = <<>>
    /\ tkPc = "idle"
    /\ tkParagraphs = <<>>
    /\ tkI = 0
    /\ tkTokens = <<>>
    /\ tkSync = <<>>
    /\ progress = <<>>
    /\ imKind = "none"
    /\ imFile = <<>>
    /\ imPc = "idle"
    /\ imSections = <<>>
    /\ imExtracted = <<>>
    /\ imI = 0
    /\ imTokens = <<>>
    /\ imChapters = <<>>
    /\ imTextLength = 0
    /\ imResult = None
    /\ imError = ""
    /\ dlToken = <<>>
    /\ dlWpm = 0
    /\ dlPauses = FALSE
    /\ dlDelay = [num |-> 0, den |-> 1]
    /\ dlPc = "idle"
    /\ orpToken = <<>>
    /\ orpEnabled = FALSE
    /\ orpSize = 0
    /\ orpMaxWidth = 0
    /\ orpLayout = <<>>
    /\ orpPc = "idle"
    /\ ovInitial = <<>>
    /\ ovCalls = <<>>

CatalogRest == <<chapterVars, readerVars, findVars, textVars, importVars, delayVars,
                 orpVars, overlapVars>>

\* An import has tokenized its file and calls saveTokenChunks
CatalogImport ==
    /\ svPc = "idle"
    /\ lbPc = "idle"
    /\ Len(lbHistory) < MaxCatalogOps
    /\ svBookId' \in CatalogIds
    /\ \E n \in 1 .. MaxCatalogChunks : svTokens' = [i \in 1 .. n |-> <<"a">>]
    /\ svChunkSize' = 1
    /\ svChunkIndex' = 0
    /\ svResult' = -1
    /\ svPc' = "saving"
    /\ UNCHANGED <<kv, ldIndex, ldChunks, libraryVars>>
    /\ UNCHANGED CatalogRest

\* A faulty handleImport: upsertBook(meta) is called before the chunks are
\* saved
CatalogUpsertEarly ==
    /\ svPc = "saving"
    /\ svChunkIndex = 0
    /\ lbPc = "idle"
    /\ lbArg' = [id |-> svBookId, title |-> <<"A">>, updatedAt |-> Len(lbHistory),
                 chunkCount |-> MathCeilDiv(Len(svTokens), svChunkSize)]
    /\ lbPc' = "upsertLoading"
    /\ UNCHANGED <<kv, saveVars, lbBooks, lbKeys, lbHistory>>
    /\ UNCHANGED CatalogRest

\* saveTokenChunks has returned and the import with it: handleImport calls
\* upsertBook(imported.meta)
CatalogUpsert ==
    /\ svPc = "saved"
    /\ lbPc = "idle"
    /\ lbArg' = [id |-> svBookId, title |-> <<"A">>, updatedAt |-> Len(lbHistory),
                 chunkCount |-> svResult]
    /\ lbPc' = "upsertLoading"
    /\ UNCHANGED <<kv, saveVars, lbBooks, lbKeys, lbHistory>>
    /\ UNCHANGED CatalogRest

\* upsertBook returns: handleImport calls saveReadingState(initialState)
CatalogSaveState ==
    /\ svPc # "idle"
    /\ lbPc = "upsertSaving"
    /\ kv' = saveReadingState(kv, lbArg.id, [index |-> 0])
    /\ lbPc' = "importState"
    /\ UNCHANGED <<saveVars, lbArg, lbBooks, lbKeys, lbHistory>>
    /\ UNCHANGED CatalogRest

\* saveReadingState returns: the import is over
CatalogImported ==
    /\ lbPc = "importState"
    /\ lbPc' = "idle"
    /\ svPc' = "idle"
    /\ lbHistory' = Append(lbHistory, [op |-> "import", arg |-> lbArg.id])
    /\ UNCHANGED <<kv, svBookId, svTokens, svChunkSize, svChunkIndex, svResult,
                   ldIndex, ldChunks, lbArg, lbBooks, lbKeys>>
    /\ UNCHANGED CatalogRest

\* handleDelete of a book shown in the list: removeBook(bookId) is called
CatalogDelete ==
    /\ svPc = "idle"
    /\ lbPc = "idle"
    /\ Len(lbHistory) < MaxCatalogOps
    /\ \E j \in 1 .. Len(loadBooks(kv)) : lbArg' = loadBooks(kv)[j].id
    /\ lbPc' = "removeLoading"
    /\ UNCHANGED <<kv, saveVars, lbBooks, lbKeys, lbHistory>>
    /\ UNCHANGED CatalogRest

\* The running import or deletion ends where it stands
CatalogAbandon ==
    /\ svPc # "idle" \/ lbPc # "idle"
    /\ svPc' = "idle"
    /\ lbPc' = "idle"
    /\ lbHistory' = Append(lbHistory, [op |-> "abandoned", arg |-> <<>>])
    /\ UNCHANGED <<kv, svBookId, svTokens, svChunkSize, svChunkIndex, svResult,
                   ldIndex, ldChunks, lbArg, lbBooks, lbKeys>>
    /\ UNCHANGED CatalogRest

NextCatalog ==
    \/ CatalogImport \/ SaveChunk \/ SaveReturn
    \/ CatalogUpsert \/ UpsertSave \/ CatalogSaveState \/ CatalogImported
    \/ CatalogDelete \/ RemoveSaveBooks \/ RemoveReadingState \/ RemoveListKeys
    \/ RemoveChunks
    \/ CatalogAbandon

SpecCatalog == InitCatalog /\ [][NextCatalog]_vars

\* Every chunk of the book is in the store
ChunksPresent(store, b) ==
    \A n \in 0 .. (b.chunkCount - 1) : tokenChunkKey(b.id, n) \in DOMAIN store

ListedIds(store) == {loadBooks(store)[j].id : j \in 1 .. Len(loadBooks(store))}

\* C28: in every state, a crash or a failed write having ended any number
\* of imports and deletions at any step, each book of the stored list has
\* every one of its chunkCount chunks in the store; a book enters the list
\* only with its chunks stored, and chunks are only removed of books that
\* are not in the list.
C28_ListedBooksComplete ==
    /\ [](\A j \in 1 .. Len(loadBooks(kv)) : ChunksPresent(kv, loadBooks(kv)[j]))
    /\ [][/\ \A j \in 1 .. Len(loadBooks(kv')) :
                 ChunksPresent(kv, loadBooks(kv')[j])
          /\ \A key \in DOMAIN kv \ DOMAIN kv' :
                 \A id \in ListedIds(kv) : ~IsChunkKeyOf(key, id)]_vars

C28_Witness ==
    /\ svPc = "idle"
    /\ lbPc = "idle"
    /\ Len(lbHistory) = MaxCatalogOps
    /\ lbHistory[MaxCatalogOps].op = "abandoned"
    /\ \E j \in 1 .. Len(loadBooks(kv)) : loadBooks(kv)[j].chunkCount = MaxCatalogChunks
    /\ \E id \in CatalogIds \ ListedIds(kv) : tokenChunkKey(id, 0) \in DOMAIN kv

====
